---------------------------- MODULE Spec2Model ----------------------------
(***************************************************************************)
(* State-machine model of the server actions of src/src/app/actions.ts    *)
(* (submission handlers over a hosted document store, an identity bridge  *)
(* and an attachment store).  A handler runs synchronously up to each      *)
(* `await`; every awaited external call is one step of the model, which    *)
(* either commits or fails, so that calls of different requests            *)
(* interleave at exactly the places where the code suspends.               *)
(***************************************************************************)
EXTENDS Integers, Sequences, FiniteSets, TLC

(***************************************************************************)
(* Bounds of the model.                                                    *)
(***************************************************************************)
MaxCalls == 2          \* handler invocations made in one behaviour
MaxEarningsCalls == 1  \* earnings submissions made in one behaviour
MaxItems == 2          \* line items of one earnings submission
MaxPrior == 1          \* earnings documents in the store before the behaviour
MaxDocs == 2           \* documents in the store when the views are opened
MaxTime == 2           \* distinct readings of Date.now()
MaxSubs == 2           \* subscriptions one live page opens in one behaviour
MaxMembers == 2        \* membership applications received before the admin page opens

(***************************************************************************)
(* JavaScript values.                                                      *)
(***************************************************************************)
Undefined == "<undefined>"          \* a field the caller did not supply
TrueV == "<true>"                   \* the boolean true, as a submitted value
FalseV == "<false>"                 \* the boolean false, as a submitted value

Chars(s) == { SubSeq(s, i, i) : i \in 1..Len(s) }

Digits == <<"0", "1", "2", "3", "4", "5", "6", "7", "8", "9">>

DigitVal(ch) == (CHOOSE i \in 1..10 : Digits[i] = ch) - 1

IsDigits(s) == Len(s) > 0 /\ \A i \in 1..Len(s) : \E d \in 1..10 : Digits[d] = SubSeq(s, i, i)

RECURSIVE DigitsVal(_)
DigitsVal(s) ==
    IF Len(s) = 0 THEN 0
    ELSE 10 * DigitsVal(SubSeq(s, 1, Len(s) - 1)) + DigitVal(SubSeq(s, Len(s), Len(s)))

\* A JavaScript number: NaN, or an integer value.
NaN == [nan |-> TRUE, v |-> 0]
Num(n) == [nan |-> FALSE, v |-> n]

\* Number(x) of a string: "" is 0, a (signed) decimal numeral is its value,
\* everything else is NaN.
ToNumber(s) ==
    IF s = "" THEN Num(0)
    ELSE IF IsDigits(s) THEN Num(DigitsVal(s))
    ELSE IF Len(s) > 1 /\ SubSeq(s, 1, 1) = "-" /\ IsDigits(SubSeq(s, 2, Len(s)))
         THEN Num(0 - DigitsVal(SubSeq(s, 2, Len(s))))
    ELSE NaN

endsWith(s, suffix) ==
    /\ Len(s) >= Len(suffix)
    /\ SubSeq(s, Len(s) - Len(suffix) + 1, Len(s)) = suffix

(***************************************************************************)
(* zod checks.  A schema yields the set of <<field, message>> errors of    *)
(* error.flatten().fieldErrors; the input is valid iff the set is empty.   *)
(***************************************************************************)
\* z.string().min(n, msg): a missing field is "Required".
StringMin(field, val, n, msg) ==
    IF val = Undefined THEN {<<field, "Required">>}
    ELSE IF Len(val) < n THEN {<<field, msg>>}
    ELSE {}

\* z.string().email(): one "@" after a non-empty local part, and a dot in
\* the domain followed by a top-level label of at least two characters.
IsEmail(s) ==
    /\ s # Undefined
    /\ " " \notin Chars(s)
    /\ Cardinality({ i \in 1..Len(s) : SubSeq(s, i, i) = "@" }) = 1
    /\ \E i \in 2..Len(s) :
         /\ SubSeq(s, i, i) = "@"
         /\ \E j \in (i + 2)..Len(s) :
              /\ SubSeq(s, j, j) = "."
              /\ Len(s) - j >= 2
              /\ "." \notin Chars(SubSeq(s, j + 1, Len(s)))

StringEmail(field, val, msg) ==
    IF val = Undefined THEN {<<field, "Required">>}
    ELSE IF ~IsEmail(val) THEN {<<field, msg>>}
    ELSE {}

\* z.enum(options)
Enum(field, val, options) ==
    IF val = Undefined THEN {<<field, "Required">>}
    ELSE IF val \notin options THEN {<<field, "Invalid enum value">>}
    ELSE {}

\* Faulty variant: z.boolean() without the refinement.
MustBeBoolean(field, val, msg) == {}

\* z.boolean().refine(val => val === true, {message})
MustBeTrue(field, val, msg) == IF val = TRUE THEN {} ELSE {<<field, msg>>}

(***************************************************************************)
(* The state.                                                              *)
(***************************************************************************)
VARIABLES
    store,        \* collection name -> sequence of documents, in commit order
    accounts,     \* identity bridge: sequence of accounts, uid = position
    uploads,      \* attachment store: sequence of uploaded objects
    revalidated,  \* paths handed to revalidatePath, in order
    calls,        \* handler invocations, in order of arrival
    outcomes,     \* per invocation: what each call it awaited answered, in order
    views,        \* client views: view name -> its component state
    ui            \* the admin live pages, their verify buttons and the membership wizard

vars == <<store, accounts, uploads, revalidated, calls, outcomes, views, ui>>

Collections ==
    {"jobs", "applications", "attendance", "dsr", "callLogs", "earnings",
     "employees", "newsletterSubscribers", "memberships", "tasks"}

NoResult == [success |-> FALSE, message |-> "", errors |-> {}, membershipId |-> 0]

Result(ok, msg) == [success |-> ok, message |-> msg, errors |-> {}, membershipId |-> 0]

Invalid(msg, errs) == [success |-> FALSE, message |-> msg, errors |-> errs, membershipId |-> 0]

\* A handler invocation.  pc is the awaited call it is suspended at, "done"
\* once it has returned `result`, or "threw" when an exception left it.
\* writes is the set of <<collection, id>> its store writes committed;
\* items is the state of each write of a fan-out and late the writes of it
\* that settled after the handler had returned.
NewCall(h, d, pc, res) ==
    [handler |-> h, data |-> d, pc |-> pc, result |-> res,
     writes |-> {}, url |-> Undefined, items |-> <<>>, late |-> {}, uid |-> 0]

EmployeePages == {"EmployeeDashboardPage", "DsrPage", "CallsPage", "EarningsPage"}

AdminPages == {"AttendancePage", "ReportContent"}

ViewNames == EmployeePages \cup AdminPages

NoStats == [dsrCount |-> 0, callCount |-> 0, totalEarnings |-> 0, pendingTasks |-> 0]

\* A view's component state as useState initialises it, before its effect
\* has run.  pc is the await its fetch is suspended at, key the signed-in
\* user or the employee id of the URL, local the fetch's local variables,
\* items the state of each fetch of a fan-out; fetches counts the fetches
\* started and failed records that one was rejected.
Unmounted ==
    [pc |-> "idle", key |-> Undefined, isLoading |-> TRUE, toasts |-> <<>>,
     fetches |-> 0, failed |-> FALSE, stats |-> NoStats, local |-> NoStats,
     list |-> <<>>, employee |-> <<>>,
     reportData |-> [k \in {"dsr", "callLogs", "earnings"} |-> <<>>],
     items |-> <<>>]

\* No client view is mounted.
NoViews == [v \in ViewNames |-> Unmounted]

LivePages == {"MembershipsPage", "EmployeesPage"}

\* A live page before it is mounted.  subs are the subscriptions its effect
\* has opened, in order (active until its unsubscribe function is called,
\* seen the query result last delivered to its callback, dead once its error
\* callback has run); snapshot is the snapshot last delivered to the page
\* since it mounted and awaiting the registerEmployee calls of its dialog.
NoPage ==
    [mounted |-> FALSE, list |-> <<>>, isLoading |-> TRUE, toasts |-> <<>>,
     employeeRegistered |-> 0, subs |-> <<>>, snapshot |-> <<>>, awaiting |-> {}]

\* JoinMembershipPage as useState and useForm initialise it (membershipId 0
\* is null); call is the applyForMembership invocation onSubmit awaits, 0
\* when none.
NoWizard ==
    [currentStep |-> 1, membershipId |-> 0, call |-> 0, toasts |-> <<>>,
     values |-> [name |-> "", email |-> "", phone |-> "", district |-> "", state |-> "",
                 utr |-> ""]]

\* buttons: the VerifyButton instances of the rendered rows, by membership id.
NoUi == [pages |-> [v \in LivePages |-> NoPage], buttons |-> <<>>, wizard |-> NoWizard]

Init ==
    /\ store = [c \in Collections |-> <<>>]
    /\ accounts = <<>>
    /\ uploads = <<>>
    /\ revalidated = <<>>
    /\ calls = <<>>
    /\ outcomes = <<>>
    /\ views = NoViews
    /\ ui = NoUi

CallIds == DOMAIN calls

\* The awaited call of invocation c answers o.
Observed(c, o) == outcomes' = [outcomes EXCEPT ![c] = Append(@, o)]

Answer(ok) == IF ok THEN "ok" ELSE "failed"

\* Fewer than n handler invocations have been made.
CanCall(n) == Len(calls) < n

At(c, h, pc) == c \in CallIds /\ calls[c].handler = h /\ calls[c].pc = pc

\* The handler returns: it is done, with the given result.
Return(c, res) == [calls EXCEPT ![c].pc = "done", ![c].result = res]

\* addDoc(collection(db, coll), fields) on behalf of invocation c: the store
\* generates the id.
AddDoc(coll, c, fields) ==
    [store EXCEPT ![coll] = Append(@, [id |-> Len(@) + 1, fields |-> fields, call |-> c])]

(***************************************************************************)
(* applyForJob                                                             *)
(***************************************************************************)
NoFile == [present |-> FALSE, name |-> "", size |-> 0]

\* The object built from the form before validation.
ApplicationData(form) ==
    [form EXCEPT
       !.yearsOfExperience =
           IF form.yearsOfExperience # Undefined /\ form.yearsOfExperience # ""
           THEN ToNumber(form.yearsOfExperience) ELSE Num(0),
       !.confirmInfo = (form.confirmInfo = "on"),
       !.agreeTerms = (form.agreeTerms = "on")]

\* yearsOfExperience is absent from the object when the form field is empty.
HasYears(form) == form.yearsOfExperience # Undefined /\ form.yearsOfExperience # ""

applicationSchema(form) ==
    LET data == ApplicationData(form) IN
      (IF data.jobId = Undefined THEN {<<"jobId", "Required">>} ELSE {})
      \cup StringMin("fullName", data.fullName, 2, "Full name is required.")
      \cup StringMin("mobile", data.mobile, 10, "A valid mobile number is required.")
      \cup StringEmail("email", data.email, "A valid email address is required.")
      \cup Enum("hasExperience", data.hasExperience, {"yes", "no"})
      \cup Enum("readyToRelocate", data.readyToRelocate, {"yes", "no"})
      \cup (IF HasYears(form) /\ data.yearsOfExperience.nan
            THEN {<<"yearsOfExperience", "Expected number, received nan">>} ELSE {})
      \cup MustBeTrue("confirmInfo", data.confirmInfo, "You must confirm the information is true.")
      \cup MustBeTrue("agreeTerms", data.agreeTerms, "You must agree to the terms.")

\* The handler up to its first await: convert, validate, and either return
\* the validation failure or issue the upload (a non-empty resume) or the
\* document write.
ApplyForJob(form) ==
    /\ LET errs == applicationSchema(form) IN
         calls' = Append(calls,
            IF errs # {}
            THEN NewCall("applyForJob", form, "done",
                         Invalid("Invalid application data. Please check all fields.", errs))
            ELSE IF form.resume.present /\ form.resume.size > 0
            THEN NewCall("applyForJob", form, "uploadBytes", NoResult)
            ELSE NewCall("applyForJob", form, "addDoc", NoResult))
    /\ outcomes' = Append(outcomes, <<>>)
    /\ UNCHANGED <<store, accounts, uploads, revalidated, views, ui>>

ApplyFailed(c) == Return(c, Result(FALSE, "Failed to submit application. Please try again."))

\* Template-literal rendering of a non-negative integer.
RECURSIVE NumberToString(_)
NumberToString(n) ==
    IF n < 10 THEN SubSeq("0123456789", n + 1, n + 1)
    ELSE NumberToString(n \div 10) \o SubSeq("0123456789", (n % 10) + 1, (n % 10) + 1)

\* `resumes/${jobId}/${Date.now()}-${resumeFile.name}`
ResumePath(jobId, now, name) ==
    "resumes/" \o jobId \o "/" \o NumberToString(now) \o "-" \o name

\* The retrieval URL the attachment store gives for an object.
DownloadURL(path) == "https://files/" \o path

\* Faulty variant: a rejected upload is ignored and the document is written
\* without a resumeUrl.
ApplyUploadIgnored(c, ok, now) ==
    /\ At(c, "applyForJob", "uploadBytes")
    /\ Observed(c, Answer(ok))
    /\ IF ok
       THEN /\ uploads' = Append(uploads,
                 [jobId |-> calls[c].data.jobId, time |-> now,
                  name |-> calls[c].data.resume.name,
                  path |-> ResumePath(calls[c].data.jobId, now, calls[c].data.resume.name),
                  call |-> c])
            /\ calls' = [calls EXCEPT ![c].pc = "getDownloadURL", ![c].uid = Len(uploads) + 1]
       ELSE /\ calls' = [calls EXCEPT ![c].pc = "addDoc"]
            /\ UNCHANGED uploads
    /\ UNCHANGED <<store, accounts, revalidated, views, ui>>

\* await uploadBytes(ref(storage, `resumes/${jobId}/${Date.now()}-${name}`), file)
ApplyUpload(c, ok, now) ==
    /\ At(c, "applyForJob", "uploadBytes")
    /\ Observed(c, Answer(ok))
    /\ IF ok
       THEN /\ uploads' = Append(uploads,
                 [jobId |-> calls[c].data.jobId, time |-> now,
                  name |-> calls[c].data.resume.name,
                  path |-> ResumePath(calls[c].data.jobId, now, calls[c].data.resume.name),
                  call |-> c])
            /\ calls' = [calls EXCEPT ![c].pc = "getDownloadURL", ![c].uid = Len(uploads) + 1]
       ELSE /\ calls' = ApplyFailed(c)
            /\ UNCHANGED uploads
    /\ UNCHANGED <<store, accounts, revalidated, views, ui>>

\* await getDownloadURL(snapshot.ref)
ApplyGetUrl(c, ok) ==
    /\ At(c, "applyForJob", "getDownloadURL")
    /\ Observed(c, Answer(ok))
    /\ calls' = IF ok
                THEN [calls EXCEPT ![c].pc = "addDoc",
                                   ![c].url = DownloadURL(uploads[calls[c].uid].path)]
                ELSE ApplyFailed(c)
    /\ UNCHANGED <<store, accounts, uploads, revalidated, views, ui>>

\* Faulty variant: the write's rejection is not caught into a failure.
ApplyAddDocUnchecked(c, ok) ==
    /\ At(c, "applyForJob", "addDoc")
    /\ Observed(c, Answer(ok))
    /\ store' = IF ok THEN AddDoc("applications", c,
                              [jobId |-> calls[c].data.jobId,
                               fullName |-> calls[c].data.fullName,
                               confirmInfo |-> ApplicationData(calls[c].data).confirmInfo,
                               agreeTerms |-> ApplicationData(calls[c].data).agreeTerms,
                               resumeUrl |-> calls[c].url])
                 ELSE store
    /\ calls' = Return(c, Result(TRUE,
                    "Application submitted successfully! We will get back to you soon."))
    /\ UNCHANGED <<accounts, uploads, revalidated, views, ui>>

\* await addDoc(collection(db, "applications"), {...applicationData, submittedAt})
ApplyAddDoc(c, ok) ==
    /\ At(c, "applyForJob", "addDoc")
    /\ Observed(c, Answer(ok))
    /\ IF ok
       THEN /\ store' = AddDoc("applications", c,
                 [jobId |-> calls[c].data.jobId,
                  fullName |-> calls[c].data.fullName,
                  confirmInfo |-> ApplicationData(calls[c].data).confirmInfo,
                  agreeTerms |-> ApplicationData(calls[c].data).agreeTerms,
                  resumeUrl |-> calls[c].url])
            /\ calls' = [Return(c, Result(TRUE,
                            "Application submitted successfully! We will get back to you soon."))
                         EXCEPT ![c].writes = @ \cup {<<"applications", Len(store["applications"]) + 1>>}]
       ELSE /\ calls' = ApplyFailed(c)
            /\ UNCHANGED store
    /\ UNCHANGED <<accounts, uploads, revalidated, views, ui>>

(***************************************************************************)
(* addJob                                                                  *)
(***************************************************************************)
\* z.coerce.number().min(lo).optional(): absent is accepted, anything else
\* goes through Number() and must be a number >= lo.
CoerceMinOptional(field, val, lo) ==
    IF val = Undefined THEN {}
    ELSE IF ToNumber(val).nan THEN {<<field, "Expected number, received nan">>}
    ELSE IF ToNumber(val).v < lo THEN {<<field, "Number must be greater than or equal to 0">>}
    ELSE {}

\* z.coerce.number().optional(): absent is accepted, anything else goes
\* through Number() and must not be NaN.
CoerceOptional(field, val) ==
    IF val = Undefined THEN {}
    ELSE IF ToNumber(val).nan THEN {<<field, "Expected number, received nan">>}
    ELSE {}

\* z.coerce.number().min(lo, msg): undefined coerces to NaN.
CoerceMin(field, val, lo, msg) ==
    IF val = Undefined \/ ToNumber(val).nan THEN {<<field, "Expected number, received nan">>}
    ELSE IF ToNumber(val).v < lo THEN {<<field, msg>>}
    ELSE {}

\* z.string(): only the presence of the field is checked.
StringAny(field, val) == IF val = Undefined THEN {<<field, "Required">>} ELSE {}

RECURSIVE trim(_)
trim(s) ==
    IF Len(s) > 0 /\ SubSeq(s, 1, 1) = " " THEN trim(SubSeq(s, 2, Len(s)))
    ELSE IF Len(s) > 0 /\ SubSeq(s, Len(s), Len(s)) = " " THEN trim(SubSeq(s, 1, Len(s) - 1))
    ELSE s

RECURSIVE split(_, _)
split(s, sep) ==
    IF \E i \in 1..Len(s) : SubSeq(s, i, i) = sep
    THEN LET i == CHOOSE k \in 1..Len(s) :
                    /\ SubSeq(s, k, k) = sep
                    /\ \A j \in 1..(k - 1) : SubSeq(s, j, j) # sep
         IN <<SubSeq(s, 1, i - 1)>> \o split(SubSeq(s, i + 1, Len(s)), sep)
    ELSE <<s>>

\* jobData.tags ? jobData.tags.split(',').map(tag => tag.trim()) : []
tagsArray(tags) ==
    IF tags = Undefined \/ tags = "" THEN <<>>
    ELSE [i \in DOMAIN split(tags, ",") |-> trim(split(tags, ",")[i])]

jobSchema(data) ==
    StringMin("title", data.title, 3, "Title is required.")
    \cup StringMin("company", data.company, 2, "Company name is required.")
    \cup StringMin("location", data.location, 2, "Location is required.")
    \cup StringMin("type", data.type, 1, "Job type is required.")
    \cup StringMin("workMode", data.workMode, 1, "Work mode is required.")
    \cup CoerceMinOptional("experienceMin", data.experienceMin, 0)
    \cup CoerceMinOptional("experienceMax", data.experienceMax, 0)
    \cup CoerceMinOptional("salaryMin", data.salaryMin, 0)
    \cup CoerceMinOptional("salaryMax", data.salaryMax, 0)
    \cup StringMin("department", data.department, 1, "Department is required.")
    \cup StringMin("companyType", data.companyType, 1, "Company type is required.")
    \cup StringMin("roleCategory", data.roleCategory, 1, "Role category is required.")
    \cup StringMin("education", data.education, 1, "Education is required.")
    \cup StringMin("industry", data.industry, 1, "Industry is required.")
    \cup StringMin("description", data.description, 10, "Description is required.")

AddJob(data) ==
    /\ LET errs == jobSchema(data) IN
         calls' = Append(calls,
            IF errs # {}
            THEN NewCall("addJob", data, "done",
                         Invalid("Invalid job data. Please check all fields.", errs))
            ELSE NewCall("addJob", data, "addDoc", NoResult))
    /\ outcomes' = Append(outcomes, <<>>)
    /\ UNCHANGED <<store, accounts, uploads, revalidated, views, ui>>

\* await addDoc(collection(db, "jobs"), ...); revalidatePath twice; return.
AddJobAddDoc(c, ok) ==
    /\ At(c, "addJob", "addDoc")
    /\ Observed(c, Answer(ok))
    /\ IF ok
       THEN /\ store' = AddDoc("jobs", c,
                 [calls[c].data EXCEPT !.tags = tagsArray(calls[c].data.tags)])
            /\ revalidated' = revalidated \o <<"/jobs", "/admin">>
            /\ calls' = [Return(c, Result(TRUE, "Job added successfully!"))
                         EXCEPT ![c].writes = @ \cup {<<"jobs", Len(store["jobs"]) + 1>>}]
       ELSE /\ calls' = Return(c, Result(FALSE, "Failed to add job. Please try again."))
            /\ UNCHANGED <<store, revalidated>>
    /\ UNCHANGED <<accounts, uploads, views, ui>>

BaseJob ==
    [title |-> "Site Engineer", company |-> "Zensolve", location |-> "Patna",
     type |-> "Full-time", workMode |-> "On-site", experienceMin |-> "1",
     experienceMax |-> Undefined, salaryMin |-> Undefined, salaryMax |-> Undefined,
     department |-> "Civil", companyType |-> "Private", roleCategory |-> "Engineering",
     education |-> "B.Tech", industry |-> "Construction",
     description |-> "Builds the site.", tags |-> "civil, on-site"]

JobInputs ==
    {BaseJob, [BaseJob EXCEPT !.title = "QA"], [BaseJob EXCEPT !.salaryMin = "-1"],
     [BaseJob EXCEPT !.salaryMin = "20000", !.tags = Undefined]}

(***************************************************************************)
(* markAttendance                                                          *)
(***************************************************************************)
attendanceSchema(data) ==
    Enum("status", data.status, {"working", "leave"})
    \cup StringAny("employeeId", data.employeeId)
    \cup StringAny("employeeName", data.employeeName)

\* Faulty variant: the write is issued whatever the validation says.
MarkAttendanceUnvalidated(data) ==
    /\ calls' = Append(calls, NewCall("markAttendance", data, "addDoc", NoResult))
    /\ outcomes' = Append(outcomes, <<>>)
    /\ UNCHANGED <<store, accounts, uploads, revalidated, views, ui>>

MarkAttendance(data) ==
    /\ calls' = Append(calls,
          IF attendanceSchema(data) # {}
          THEN NewCall("markAttendance", data, "done", Invalid("Invalid data.", {}))
          ELSE NewCall("markAttendance", data, "addDoc", NoResult))
    /\ outcomes' = Append(outcomes, <<>>)
    /\ UNCHANGED <<store, accounts, uploads, revalidated, views, ui>>

\* Faulty variant: one record per employee; a further one is refused.
MarkAttendanceAddDocOnce(c, ok) ==
    /\ At(c, "markAttendance", "addDoc")
    /\ Observed(c, Answer(ok))
    /\ IF ok /\ \A i \in DOMAIN store["attendance"] :
                  store["attendance"][i].fields.employeeId # calls[c].data.employeeId
       THEN /\ store' = AddDoc("attendance", c, calls[c].data)
            /\ calls' = [Return(c, Result(TRUE, "Attendance marked successfully."))
                         EXCEPT ![c].writes = @ \cup {<<"attendance", Len(store["attendance"]) + 1>>}]
       ELSE /\ calls' = Return(c, Result(FALSE, "Failed to mark attendance."))
            /\ UNCHANGED store
    /\ UNCHANGED <<accounts, uploads, revalidated, views, ui>>

\* await addDoc(collection(db, "attendance"), {...data, date: serverTimestamp()})
MarkAttendanceAddDoc(c, ok) ==
    /\ At(c, "markAttendance", "addDoc")
    /\ Observed(c, Answer(ok))
    /\ IF ok
       THEN /\ store' = AddDoc("attendance", c, calls[c].data)
            /\ calls' = [Return(c, Result(TRUE, "Attendance marked successfully."))
                         EXCEPT ![c].writes = @ \cup {<<"attendance", Len(store["attendance"]) + 1>>}]
       ELSE /\ calls' = Return(c, Result(FALSE, "Failed to mark attendance."))
            /\ UNCHANGED store
    /\ UNCHANGED <<accounts, uploads, revalidated, views, ui>>

AttendanceInputs ==
    { [status |-> st, tasks |-> Undefined, employeeId |-> e, employeeName |-> "Ravi"] :
        st \in {"working", "leave", "absent"}, e \in {"e1", "e2"} }

\* All the calls of a behaviour are made on one day.
NextAttendance ==
    \/ CanCall(MaxCalls) /\ \E data \in AttendanceInputs : MarkAttendance(data)
    \/ \E c \in CallIds, ok \in BOOLEAN : MarkAttendanceAddDoc(c, ok)

SpecAttendance == Init /\ [][NextAttendance]_vars

(***************************************************************************)
(* submitDsr                                                               *)
(***************************************************************************)
\* z.boolean().default(false)
BoolDefault(val) == IF val = Undefined THEN FALSE ELSE (val = TrueV)

\* The schema of the server action: it has no cross-field refinement.
dsrSchema(data) ==
    StringMin("description", data.description, 10, "Description is required.")
    \cup (IF data.hasTravelled \in {Undefined, TrueV, FalseV} THEN {}
          ELSE {<<"hasTravelled", "Expected boolean">>})
    \cup CoerceOptional("openingKm", data.openingKm)
    \cup CoerceOptional("closingKm", data.closingKm)
    \cup StringAny("employeeId", data.employeeId)
    \cup StringAny("employeeName", data.employeeName)

\* validatedFields.data: the default applied, the distances coerced.
Km(val) == IF val = Undefined THEN <<>> ELSE <<ToNumber(val).v>>

DsrDoc(data) ==
    [description |-> data.description, hasTravelled |-> BoolDefault(data.hasTravelled),
     openingKm |-> Km(data.openingKm), closingKm |-> Km(data.closingKm),
     employeeId |-> data.employeeId, employeeName |-> data.employeeName]

SubmitDsr(data) ==
    /\ LET errs == dsrSchema(data) IN
         calls' = Append(calls,
            IF errs # {}
            THEN NewCall("submitDsr", data, "done", Invalid("Invalid data.", errs))
            ELSE NewCall("submitDsr", data, "addDoc", NoResult))
    /\ outcomes' = Append(outcomes, <<>>)
    /\ UNCHANGED <<store, accounts, uploads, revalidated, views, ui>>

SubmitDsrAddDoc(c, ok) ==
    /\ At(c, "submitDsr", "addDoc")
    /\ Observed(c, Answer(ok))
    /\ IF ok
       THEN /\ store' = AddDoc("dsr", c, DsrDoc(calls[c].data))
            /\ calls' = [Return(c, Result(TRUE, "DSR submitted successfully."))
                         EXCEPT ![c].writes = @ \cup {<<"dsr", Len(store["dsr"]) + 1>>}]
       ELSE /\ calls' = Return(c, Result(FALSE, "Failed to submit DSR."))
            /\ UNCHANGED store
    /\ UNCHANGED <<accounts, uploads, revalidated, views, ui>>

BaseDsr ==
    [description |-> "Visited two client sites.", hasTravelled |-> FalseV,
     openingKm |-> Undefined, closingKm |-> Undefined,
     employeeId |-> "e1", employeeName |-> "Ravi"]

DsrInputs ==
    { [BaseDsr EXCEPT !.hasTravelled = t, !.openingKm = o, !.closingKm = k] :
        t \in {TrueV, FalseV}, o \in {Undefined, "15000", ""},
        k \in {Undefined, "14900", "15100", "abc"} }
    \cup { [BaseDsr EXCEPT !.description = "short"] }

(***************************************************************************)
(* logCall                                                                 *)
(***************************************************************************)
callLogSchema(data) ==
    StringMin("clientName", data.clientName, 2, "Client name is required.")
    \cup StringMin("clientMobile", data.clientMobile, 10, "A valid mobile number is required.")
    \cup StringMin("topic", data.topic, 5, "Topic is required.")
    \cup CoerceMin("duration", data.duration, 1, "Duration must be at least 1 minute.")
    \cup StringAny("employeeId", data.employeeId)
    \cup StringAny("employeeName", data.employeeName)

LogCall(data) ==
    /\ LET errs == callLogSchema(data) IN
         calls' = Append(calls,
            IF errs # {}
            THEN NewCall("logCall", data, "done", Invalid("Invalid data.", errs))
            ELSE NewCall("logCall", data, "addDoc", NoResult))
    /\ outcomes' = Append(outcomes, <<>>)
    /\ UNCHANGED <<store, accounts, uploads, revalidated, views, ui>>

LogCallAddDoc(c, ok) ==
    /\ At(c, "logCall", "addDoc")
    /\ Observed(c, Answer(ok))
    /\ IF ok
       THEN /\ store' = AddDoc("callLogs", c,
                 [calls[c].data EXCEPT !.duration = ToNumber(calls[c].data.duration).v])
            /\ calls' = [Return(c, Result(TRUE, "Call logged successfully."))
                         EXCEPT ![c].writes = @ \cup {<<"callLogs", Len(store["callLogs"]) + 1>>}]
       ELSE /\ calls' = Return(c, Result(FALSE, "Failed to log call."))
            /\ UNCHANGED store
    /\ UNCHANGED <<accounts, uploads, revalidated, views, ui>>

BaseCall ==
    [clientName |-> "Meera", clientMobile |-> "9123456780", topic |-> "Renewal",
     duration |-> "12", employeeId |-> "e1", employeeName |-> "Ravi"]

CallInputs ==
    {BaseCall, [BaseCall EXCEPT !.duration = "0"], [BaseCall EXCEPT !.duration = "soon"],
     [BaseCall EXCEPT !.topic = "Hi", !.employeeId = "e2"]}

(***************************************************************************)
(* submitEarnings                                                          *)
(***************************************************************************)
\* Faulty variant: the array schema without .min(1).
earningsSchemaNoMin(data) ==
    UNION { { <<"earnings", e[2]>> :
                e \in StringMin("description", data.earnings[i].description, 3,
                                "Description is required.")
                      \cup CoerceMin("amount", data.earnings[i].amount, 1,
                                     "Amount must be greater than 0.") } :
            i \in DOMAIN data.earnings }
    \cup StringAny("employeeId", data.employeeId)
    \cup StringAny("employeeName", data.employeeName)

earningsSchema(data) ==
    (IF Len(data.earnings) < 1 THEN {<<"earnings", "Please add at least one earning.">>} ELSE {})
    \cup UNION { { <<"earnings", e[2]>> :
                     e \in StringMin("description", data.earnings[i].description, 3,
                                     "Description is required.")
                           \cup CoerceMin("amount", data.earnings[i].amount, 1,
                                          "Amount must be greater than 0.") } :
                 i \in DOMAIN data.earnings }
    \cup StringAny("employeeId", data.employeeId)
    \cup StringAny("employeeName", data.employeeName)

\* Up to `await Promise.all(earningPromises)`: every line item's addDoc has
\* been issued.
SubmitEarnings(data) ==
    /\ LET errs == earningsSchema(data) IN
         calls' = Append(calls,
            IF errs # {}
            THEN NewCall("submitEarnings", data, "done", Invalid("Invalid data.", errs))
            ELSE [NewCall("submitEarnings", data, "Promise.all", NoResult)
                  EXCEPT !.items = [i \in DOMAIN data.earnings |-> "pending"]])
    /\ outcomes' = Append(outcomes, <<>>)
    /\ UNCHANGED <<store, accounts, uploads, revalidated, views, ui>>

\* Faulty variant: a rejected write removes what the submission has written.
EarningAddDocRollback(c, i, ok) ==
    /\ c \in CallIds
    /\ calls[c].handler = "submitEarnings"
    /\ i \in DOMAIN calls[c].items
    /\ calls[c].items[i] = "pending"
    /\ LET items == [calls[c].items EXCEPT ![i] = IF ok THEN "ok" ELSE "failed"]
           settled == [calls EXCEPT ![c].items = items,
                         ![c].late = IF calls[c].pc = "done" THEN @ \cup {i} ELSE @,
                         ![c].writes = IF ok THEN @ \cup {<<"earnings", Len(store["earnings"]) + 1>>}
                                       ELSE @]
       IN /\ store' = IF ok
                      THEN AddDoc("earnings", c,
                             [description |-> calls[c].data.earnings[i].description,
                              amount |-> ToNumber(calls[c].data.earnings[i].amount).v,
                              employeeId |-> calls[c].data.employeeId,
                              employeeName |-> calls[c].data.employeeName])
                      ELSE [store EXCEPT !["earnings"] =
                              SelectSeq(@, LAMBDA d : d.call # c)]
          /\ calls' =
               IF calls[c].pc # "Promise.all" THEN settled
               ELSE IF ~ok
               THEN [settled EXCEPT ![c].pc = "done",
                                    ![c].result = Result(FALSE, "Failed to submit earnings.")]
               ELSE IF \A j \in DOMAIN items : items[j] = "ok"
               THEN [settled EXCEPT ![c].pc = "done",
                                    ![c].result = Result(TRUE, "Earnings submitted successfully.")]
               ELSE settled
    /\ UNCHANGED <<accounts, uploads, revalidated, outcomes, views, ui>>

\* One line item's addDoc settles.  Promise.all rejects on the first
\* rejection and fulfils when every write has; a write still in flight when
\* the handler has returned settles all the same.
EarningAddDoc(c, i, ok) ==
    /\ c \in CallIds
    /\ calls[c].handler = "submitEarnings"
    /\ i \in DOMAIN calls[c].items
    /\ calls[c].items[i] = "pending"
    /\ LET items == [calls[c].items EXCEPT ![i] = IF ok THEN "ok" ELSE "failed"]
           settled == [calls EXCEPT ![c].items = items,
                         ![c].late = IF calls[c].pc = "done" THEN @ \cup {i} ELSE @,
                         ![c].writes = IF ok THEN @ \cup {<<"earnings", Len(store["earnings"]) + 1>>}
                                       ELSE @]
       IN /\ store' = IF ok
                      THEN AddDoc("earnings", c,
                             [description |-> calls[c].data.earnings[i].description,
                              amount |-> ToNumber(calls[c].data.earnings[i].amount).v,
                              employeeId |-> calls[c].data.employeeId,
                              employeeName |-> calls[c].data.employeeName])
                      ELSE store
          /\ calls' =
               IF calls[c].pc # "Promise.all" THEN settled
               ELSE IF ~ok
               THEN [settled EXCEPT ![c].pc = "done",
                                    ![c].result = Result(FALSE, "Failed to submit earnings.")]
               ELSE IF \A j \in DOMAIN items : items[j] = "ok"
               THEN [settled EXCEPT ![c].pc = "done",
                                    ![c].result = Result(TRUE, "Earnings submitted successfully.")]
               ELSE settled
    /\ UNCHANGED <<accounts, uploads, revalidated, outcomes, views, ui>>

EarningItems ==
    {[description |-> "Fuel", amount |-> "100"], [description |-> "Toll", amount |-> "0"]}

RECURSIVE SeqsUpTo(_, _)
SeqsUpTo(S, n) ==
    IF n = 0 THEN {<<>>}
    ELSE SeqsUpTo(S, n - 1) \cup { Append(q, x) : q \in SeqsUpTo(S, n - 1), x \in S }

EarningsInputs ==
    { [earnings |-> q, employeeId |-> e, employeeName |-> "Ravi"] :
        q \in SeqsUpTo(EarningItems, MaxItems), e \in {"e1", "e2"} }

PriorEarnings ==
    { [id |-> 1, call |-> 0,
       fields |-> [description |-> "Bonus", amount |-> x[2],
                   employeeId |-> x[1], employeeName |-> "Ravi"]] :
        x \in {<<"e1", 40>>, <<"e2", 75>>} }

Renumber(docs) == [i \in DOMAIN docs |-> [docs[i] EXCEPT !.id = i]]

\* The documents of earlier submissions, one commit order for each set of them.
InitEarnings ==
    /\ \E prior \in SeqsUpTo(PriorEarnings, MaxPrior) :
         /\ \A i \in 1..Len(prior) - 1 : prior[i].fields.amount < prior[i + 1].fields.amount
         /\ store = [c \in Collections |-> IF c = "earnings" THEN Renumber(prior) ELSE <<>>]
    /\ accounts = <<>>
    /\ uploads = <<>>
    /\ revalidated = <<>>
    /\ calls = <<>>
    /\ outcomes = <<>>
    /\ views = NoViews
    /\ ui = NoUi

NextEarnings ==
    \/ CanCall(MaxEarningsCalls) /\ \E data \in EarningsInputs : SubmitEarnings(data)
    \/ \E c \in CallIds, i \in 1..MaxItems, ok \in BOOLEAN : EarningAddDoc(c, i, ok)

SpecEarnings == InitEarnings /\ [][NextEarnings]_vars

(***************************************************************************)
(* The identity bridge: createUserWithEmailAndPassword(auth, email, pw).   *)
(***************************************************************************)
HasAccount(email) == \E u \in DOMAIN accounts : accounts[u].email = email

CreateCodes ==
    {"ok", "auth/network-request-failed", "auth/invalid-email",
     "auth/email-already-in-use", "auth/weak-password"}

\* Faulty variant: a bridge that accepts a login that exists already.
CreateOutcomesAnyLogin(email, password) ==
    LET refusals ==
          (IF ~IsEmail(email) THEN {"auth/invalid-email"} ELSE {})
          \cup (IF Len(password) < 6 THEN {"auth/weak-password"} ELSE {})
    IN {"auth/network-request-failed"} \cup (IF refusals = {} THEN {"ok"} ELSE refusals)

\* What one call may answer: "ok", or an error code.  The bridge refuses an
\* address that is no e-mail address, a login that exists and a password
\* shorter than six characters (which of several it reports is its choice),
\* and any call may fail for a reason of the network or the service.
CreateOutcomes(email, password) ==
    LET refusals ==
          (IF ~IsEmail(email) THEN {"auth/invalid-email"} ELSE {})
          \cup (IF HasAccount(email) THEN {"auth/email-already-in-use"} ELSE {})
          \cup (IF Len(password) < 6 THEN {"auth/weak-password"} ELSE {})
    IN {"auth/network-request-failed"} \cup (IF refusals = {} THEN {"ok"} ELSE refusals)

\* error.message of a rejected identity-bridge or store call: the service's
\* own text, which carries the error code.
ErrorMessage(code) == "Firebase: Error (" \o code \o ")."

CreateUser(email, password, c) ==
    Append(accounts, [email |-> email, password |-> password, call |-> c])

(***************************************************************************)
(* registerEmployee                                                        *)
(***************************************************************************)
DomainSuffix == "@zensolve.in"

\* Faulty variant: the userId schema without the suffix refinement.
UserIdCheckNoSuffix(val) ==
    IF val = Undefined THEN {<<"userId", "Required">>}
    ELSE IF Len(val) < 3 THEN {<<"userId", "User ID is required.">>} ELSE {}

\* z.string().min(3, ...).refine(val => val.endsWith('@zensolve.in'), ...)
UserIdCheck(val) ==
    IF val = Undefined THEN {<<"userId", "Required">>}
    ELSE (IF Len(val) < 3 THEN {<<"userId", "User ID is required.">>} ELSE {})
         \cup (IF ~endsWith(val, DomainSuffix)
               THEN {<<"userId", "User ID must end with @zensolve.in">>} ELSE {})

registrationSchema(data) ==
    StringMin("fullName", data.fullName, 3, "Full name must be at least 3 characters.")
    \cup StringMin("mobile", data.mobile, 10, "A valid 10-digit mobile number is required.")
    \cup (IF data.mobile # Undefined /\ Len(data.mobile) > 10
          THEN {<<"mobile", "A valid 10-digit mobile number is required.">>} ELSE {})
    \cup StringEmail("personalEmail", data.personalEmail, "Please enter a valid personal email.")
    \cup UserIdCheck(data.userId)
    \cup StringMin("password", data.password, 6, "Password must be at least 6 characters.")
    \cup StringMin("district", data.district, 2, "District is required.")
    \cup StringMin("state", data.state, 2, "State is required.")
    \cup (IF data.pincode = Undefined THEN {<<"pincode", "Required">>}
          ELSE IF Len(data.pincode) # 6 THEN {<<"pincode", "Pincode must be 6 digits.">>}
          ELSE {})

\* The handler up to its first await.
registerEmployee(data) ==
    LET errs == registrationSchema(data) IN
      IF errs # {}
      THEN NewCall("registerEmployee", data, "done",
                   Invalid("Invalid registration data. Please check all fields.", errs))
      ELSE NewCall("registerEmployee", data, "createUser", NoResult)

RegisterEmployee(data) ==
    /\ calls' = Append(calls, registerEmployee(data))
    /\ outcomes' = Append(outcomes, <<>>)
    /\ UNCHANGED <<store, accounts, uploads, revalidated, views, ui>>

\* The catch block's choice of message.
RegisterError(code) ==
    IF code = "auth/email-already-in-use"
    THEN "This User ID is already taken. Please try with a different User ID."
    ELSE IF code = "auth/weak-password"
    THEN "The password is too weak. It must be at least 6 characters long."
    ELSE "Failed to register employee. Please try again."

\* Faulty variant: the document write is issued whatever the account creation
\* answered.
RegisterCreateUserUnchecked(c, outcome) ==
    /\ At(c, "registerEmployee", "createUser")
    /\ Observed(c, outcome)
    /\ outcome \in CreateOutcomes(calls[c].data.userId, calls[c].data.password)
    /\ IF outcome = "ok"
       THEN /\ accounts' = CreateUser(calls[c].data.userId, calls[c].data.password, c)
            /\ calls' = [calls EXCEPT ![c].pc = "setDoc", ![c].uid = Len(accounts) + 1]
       ELSE /\ calls' = [calls EXCEPT ![c].pc = "setDoc"]
            /\ UNCHANGED accounts
    /\ UNCHANGED <<store, uploads, revalidated, views, ui>>

\* await createUserWithEmailAndPassword(auth, userId, password)
RegisterCreateUser(c, outcome) ==
    /\ At(c, "registerEmployee", "createUser")
    /\ Observed(c, outcome)
    /\ outcome \in CreateOutcomes(calls[c].data.userId, calls[c].data.password)
    /\ IF outcome = "ok"
       THEN /\ accounts' = CreateUser(calls[c].data.userId, calls[c].data.password, c)
            /\ calls' = [calls EXCEPT ![c].pc = "setDoc", ![c].uid = Len(accounts) + 1]
       ELSE /\ calls' = Return(c, Result(FALSE, RegisterError(outcome)))
            /\ UNCHANGED accounts
    /\ UNCHANGED <<store, uploads, revalidated, views, ui>>

\* setDoc(doc(db, coll, id), fields): creates the document or replaces it.
SetDoc(coll, c, id, fields) ==
    IF \E i \in DOMAIN store[coll] : store[coll][i].id = id
    THEN [store EXCEPT ![coll] =
            [i \in DOMAIN @ |-> IF @[i].id = id THEN [id |-> id, fields |-> fields, call |-> c]
                                ELSE @[i]]]
    ELSE [store EXCEPT ![coll] = Append(@, [id |-> id, fields |-> fields, call |-> c])]

\* await setDoc(doc(db, "employees", user.uid), ...); revalidatePath; return.
RegisterSetDoc(c, ok) ==
    /\ At(c, "registerEmployee", "setDoc")
    /\ Observed(c, Answer(ok))
    /\ IF ok
       THEN /\ store' = SetDoc("employees", c, calls[c].uid,
                 [name |-> calls[c].data.fullName, userId |-> calls[c].data.userId,
                  mobile |-> calls[c].data.mobile,
                  personalEmail |-> calls[c].data.personalEmail,
                  district |-> calls[c].data.district, state |-> calls[c].data.state,
                  pincode |-> calls[c].data.pincode, status |-> "active"])
            /\ revalidated' = Append(revalidated, "/admin/employees")
            /\ calls' = [Return(c, Result(TRUE, "Employee registered successfully!"))
                         EXCEPT ![c].writes = @ \cup {<<"employees", calls[c].uid>>}]
       ELSE /\ calls' = Return(c, Result(FALSE, RegisterError("unavailable")))
            /\ UNCHANGED <<store, revalidated>>
    /\ UNCHANGED <<accounts, uploads, views, ui>>

BaseRegistration ==
    [fullName |-> "Ravi Kumar", mobile |-> "9000000001", personalEmail |-> "ravi@mail.in",
     userId |-> "ravi@zensolve.in", password |-> "secret1", district |-> "Patna",
     state |-> "Bihar", pincode |-> "800001"]

RegistrationInputs ==
    { [BaseRegistration EXCEPT !.userId = u] :
        u \in {"ravi@zensolve.in", "anu@zensolve.in", "bob@gmail.com", "ab", "@zensolve.in"} }
    \cup { [BaseRegistration EXCEPT !.password = "12345"],
           [BaseRegistration EXCEPT !.userId = "bob@gmail.com", !.mobile = "12345"] }

NextRegister ==
    \/ CanCall(MaxCalls) /\ \E data \in RegistrationInputs : RegisterEmployee(data)
    \/ \E c \in CallIds, outcome \in CreateCodes : RegisterCreateUser(c, outcome)
    \/ \E c \in CallIds, ok \in BOOLEAN : RegisterSetDoc(c, ok)

SpecRegister == Init /\ [][NextRegister]_vars

(***************************************************************************)
(* subscribeToNewsletter                                                   *)
(***************************************************************************)
newsletterSchema(email) == StringEmail("email", email, "Please enter a valid email address.")

SubscribeToNewsletter(email) ==
    /\ calls' = Append(calls,
          IF newsletterSchema(email) # {}
          THEN NewCall("subscribeToNewsletter", email, "done",
                       Invalid("Invalid email address.", {}))
          ELSE NewCall("subscribeToNewsletter", email, "getDocs", NoResult))
    /\ outcomes' = Append(outcomes, <<>>)
    /\ UNCHANGED <<store, accounts, uploads, revalidated, views, ui>>

NewsletterFailed(c) == Return(c, Result(FALSE, "Something went wrong. Please try again later."))

Subscribers(email) ==
    { i \in DOMAIN store["newsletterSubscribers"] :
        store["newsletterSubscribers"][i].fields.email = email }

\* Faulty variant: the result of the lookup is not consulted.
NewsletterGetDocsUnchecked(c, ok) ==
    /\ At(c, "subscribeToNewsletter", "getDocs")
    /\ Observed(c, Answer(ok))
    /\ calls' = IF ~ok THEN NewsletterFailed(c) ELSE [calls EXCEPT ![c].pc = "addDoc"]
    /\ UNCHANGED <<store, accounts, uploads, revalidated, views, ui>>

\* await getDocs(query(..., where("email", "==", email))): the existence check.
NewsletterGetDocs(c, ok) ==
    /\ At(c, "subscribeToNewsletter", "getDocs")
    /\ Observed(c, Answer(ok))
    /\ calls' = IF ~ok THEN NewsletterFailed(c)
                ELSE IF Subscribers(calls[c].data) # {}
                THEN Return(c, Result(TRUE, "You are already subscribed!"))
                ELSE [calls EXCEPT ![c].pc = "addDoc"]
    /\ UNCHANGED <<store, accounts, uploads, revalidated, views, ui>>

\* await addDoc(collection(db, "newsletterSubscribers"), ...); revalidatePath.
NewsletterAddDoc(c, ok) ==
    /\ At(c, "subscribeToNewsletter", "addDoc")
    /\ Observed(c, Answer(ok))
    /\ IF ok
       THEN /\ store' = AddDoc("newsletterSubscribers", c, [email |-> calls[c].data])
            /\ revalidated' = Append(revalidated, "/admin/newsletter")
            /\ calls' = [Return(c, Result(TRUE, "Thank you for subscribing!"))
                         EXCEPT ![c].writes = @ \cup
                            {<<"newsletterSubscribers", Len(store["newsletterSubscribers"]) + 1>>}]
       ELSE /\ calls' = NewsletterFailed(c)
            /\ UNCHANGED <<store, revalidated>>
    /\ UNCHANGED <<accounts, uploads, views, ui>>

NewsletterEmails == {"asha@mail.in", "dev@mail.in", "not-an-email", Undefined}

NewsletterSteps ==
    \/ \E c \in CallIds, ok \in BOOLEAN : NewsletterGetDocs(c, ok)
    \/ \E c \in CallIds, ok \in BOOLEAN : NewsletterAddDoc(c, ok)

\* Requests arrive at any time: calls interleave at their awaits.
NextNewsletter ==
    \/ CanCall(MaxCalls) /\ \E email \in NewsletterEmails : SubscribeToNewsletter(email)
    \/ NewsletterSteps

SpecNewsletter == Init /\ [][NextNewsletter]_vars

\* Every call made so far has returned (or thrown).
AllReturned == \A c \in CallIds : calls[c].pc \in {"done", "threw"}

\* One request after the other: a call is made only when the one before it
\* has returned.
NextNewsletterSeq ==
    \/ CanCall(MaxCalls + 1) /\ AllReturned
         /\ \E email \in NewsletterEmails : SubscribeToNewsletter(email)
    \/ NewsletterSteps

SpecNewsletterSeq == Init /\ [][NextNewsletterSeq]_vars

(***************************************************************************)
(* applyForMembership                                                      *)
(***************************************************************************)
membershipApplicationSchema(data) ==
    StringMin("name", data.name, 2, "Name is required.")
    \cup StringEmail("email", data.email, "A valid email is required.")
    \cup StringMin("phone", data.phone, 10, "A valid 10-digit phone number is required.")
    \cup StringMin("district", data.district, 2, "District is required.")
    \cup StringMin("state", data.state, 2, "State is required.")
    \cup StringMin("utr", data.utr, 10, "A valid UTR/Transaction ID is required.")

\* The handler up to its first await.
applyForMembership(data) ==
    LET errs == membershipApplicationSchema(data) IN
      IF errs # {}
      THEN NewCall("applyForMembership", data, "done",
                   Invalid("Invalid data. Please check all fields.", errs))
      ELSE NewCall("applyForMembership", data, "addDoc", NoResult)

ApplyForMembership(data) ==
    /\ calls' = Append(calls, applyForMembership(data))
    /\ outcomes' = Append(outcomes, <<>>)
    /\ UNCHANGED <<store, accounts, uploads, revalidated, views, ui>>

\* Faulty variant: the application is stored under the applicant's email, so
\* that a second application replaces the first, verified or not.
MembershipUpsert(c, ok) ==
    /\ At(c, "applyForMembership", "addDoc")
    /\ Observed(c, Answer(ok))
    /\ LET fields == [name |-> calls[c].data.name, email |-> calls[c].data.email,
                      phone |-> calls[c].data.phone, district |-> calls[c].data.district,
                      state |-> calls[c].data.state, utr |-> calls[c].data.utr,
                      status |-> "pending"]
           same == { i \in DOMAIN store["memberships"] :
                       store["memberships"][i].fields.email = calls[c].data.email }
       IN IF ok
          THEN /\ store' = IF same = {} THEN AddDoc("memberships", c, fields)
                           ELSE [store EXCEPT !["memberships"] =
                                   [i \in DOMAIN @ |-> IF i \in same
                                                        THEN [@[i] EXCEPT !.fields = fields]
                                                        ELSE @[i]]]
               /\ calls' = Return(c, Result(TRUE, "Application submitted successfully!"))
          ELSE /\ calls' = Return(c, Result(FALSE, "Failed to submit application. Please try again."))
               /\ UNCHANGED store
    /\ UNCHANGED <<accounts, uploads, revalidated, views, ui>>

\* await addDoc(collection(db, "memberships"), {...data, status: "pending", ...})
MembershipAddDoc(c, ok) ==
    /\ At(c, "applyForMembership", "addDoc")
    /\ Observed(c, Answer(ok))
    /\ IF ok
       THEN /\ store' = AddDoc("memberships", c,
                 [name |-> calls[c].data.name, email |-> calls[c].data.email,
                  phone |-> calls[c].data.phone, district |-> calls[c].data.district,
                  state |-> calls[c].data.state, utr |-> calls[c].data.utr,
                  status |-> "pending"])
            /\ calls' = [Return(c, [Result(TRUE, "Application submitted successfully!")
                                    EXCEPT !.membershipId = Len(store["memberships"]) + 1])
                         EXCEPT ![c].writes = @ \cup {<<"memberships", Len(store["memberships"]) + 1>>}]
       ELSE /\ calls' = Return(c, Result(FALSE, "Failed to submit application. Please try again."))
            /\ UNCHANGED store
    /\ UNCHANGED <<accounts, uploads, revalidated, views, ui>>

BaseMembership ==
    [name |-> "Asha", email |-> "asha@mail.in", phone |-> "9876543210",
     district |-> "Patna", state |-> "Bihar", utr |-> "UTR1234567"]

MembershipInputs ==
    {BaseMembership, [BaseMembership EXCEPT !.utr = "123"],
     [BaseMembership EXCEPT !.name = "Dev", !.email = "dev@mail.in", !.phone = "9123456780"]}

(***************************************************************************)
(* verifyMembership                                                        *)
(***************************************************************************)
NoId == 0        \* no document id supplied

verifyMembershipSchema(data) ==
    (IF data.membershipId = NoId THEN {<<"membershipId", "Required">>} ELSE {})
    \cup StringEmail("email", data.email, "Invalid email")
    \cup StringAny("password", data.password)

\* The handler up to its first await.
verifyMembership(data) ==
    IF verifyMembershipSchema(data) # {}
    THEN NewCall("verifyMembership", data, "done", Invalid("Invalid data.", {}))
    ELSE NewCall("verifyMembership", data, "createUser", NoResult)

VerifyMembership(data) ==
    /\ calls' = Append(calls, verifyMembership(data))
    /\ outcomes' = Append(outcomes, <<>>)
    /\ UNCHANGED <<store, accounts, uploads, revalidated, views, ui>>

\* Faulty variant: "already in use" is reported like any other error.
VerifyCreateUserNoRecovery(c, outcome) ==
    /\ At(c, "verifyMembership", "createUser")
    /\ Observed(c, outcome)
    /\ outcome \in CreateOutcomes(calls[c].data.email, calls[c].data.password)
    /\ IF outcome = "ok"
       THEN /\ accounts' = CreateUser(calls[c].data.email, calls[c].data.password, c)
            /\ calls' = [calls EXCEPT ![c].pc = "updateDoc", ![c].uid = Len(accounts) + 1]
       ELSE /\ calls' = Return(c, Result(FALSE, ErrorMessage(outcome)))
            /\ UNCHANGED accounts
    /\ UNCHANGED <<store, uploads, revalidated, views, ui>>

\* Faulty variant: every failed account creation is treated as "already in
\* use".
VerifyCreateUserAnyError(c, outcome) ==
    /\ At(c, "verifyMembership", "createUser")
    /\ Observed(c, outcome)
    /\ outcome \in CreateOutcomes(calls[c].data.email, calls[c].data.password)
    /\ IF outcome = "ok"
       THEN /\ accounts' = CreateUser(calls[c].data.email, calls[c].data.password, c)
            /\ calls' = [calls EXCEPT ![c].pc = "updateDoc", ![c].uid = Len(accounts) + 1]
       ELSE /\ calls' = [calls EXCEPT ![c].pc = "catch.updateDoc"]
            /\ UNCHANGED accounts
    /\ UNCHANGED <<store, uploads, revalidated, views, ui>>

\* await createUserWithEmailAndPassword(auth, email, password).  "Already in
\* use" sends the catch block to its own updateDoc; any other error returns
\* error.message || "Failed to verify membership.", and error.message is
\* never empty.
VerifyCreateUser(c, outcome) ==
    /\ At(c, "verifyMembership", "createUser")
    /\ Observed(c, outcome)
    /\ outcome \in CreateOutcomes(calls[c].data.email, calls[c].data.password)
    /\ IF outcome = "ok"
       THEN /\ accounts' = CreateUser(calls[c].data.email, calls[c].data.password, c)
            /\ calls' = [calls EXCEPT ![c].pc = "updateDoc", ![c].uid = Len(accounts) + 1]
       ELSE /\ calls' = IF outcome = "auth/email-already-in-use"
                        THEN [calls EXCEPT ![c].pc = "catch.updateDoc"]
                        ELSE Return(c, Result(FALSE, ErrorMessage(outcome)))
            /\ UNCHANGED accounts
    /\ UNCHANGED <<store, uploads, revalidated, views, ui>>

HasDoc(coll, id) == \E i \in DOMAIN store[coll] : store[coll][i].id = id

\* What updateDoc answers: it rejects when no such document exists.
UpdateAnswer(ok, id) ==
    IF ~ok THEN "failed" ELSE IF HasDoc("memberships", id) THEN "ok" ELSE "not-found"

\* updateDoc(doc(db, "memberships", id), {status: 'verified'})
Verified(id) ==
    [store EXCEPT !["memberships"] =
        [i \in DOMAIN @ |-> IF @[i].id = id THEN [@[i] EXCEPT !.fields.status = "verified"]
                            ELSE @[i]]]

\* await updateDoc(...) in the try block: it fails when the store does or
\* when no such document exists, and the catch block returns the message.
VerifyUpdateDoc(c, ok) ==
    /\ At(c, "verifyMembership", "updateDoc")
    /\ Observed(c, UpdateAnswer(ok, calls[c].data.membershipId))
    /\ IF ok /\ HasDoc("memberships", calls[c].data.membershipId)
       THEN /\ store' = Verified(calls[c].data.membershipId)
            /\ revalidated' = Append(revalidated, "/admin/memberships")
            /\ calls' = [Return(c, Result(TRUE, "Membership verified and user created."))
                         EXCEPT ![c].writes = @ \cup {<<"memberships", calls[c].data.membershipId>>}]
       ELSE /\ calls' = Return(c, Result(FALSE,
                               ErrorMessage(UpdateAnswer(ok, calls[c].data.membershipId))))
            /\ UNCHANGED <<store, revalidated>>
    /\ UNCHANGED <<accounts, uploads, views, ui>>

\* await updateDoc(...) inside the catch block: nothing catches its failure,
\* which leaves the handler as an exception.
VerifyCatchUpdateDoc(c, ok) ==
    /\ At(c, "verifyMembership", "catch.updateDoc")
    /\ Observed(c, UpdateAnswer(ok, calls[c].data.membershipId))
    /\ IF ok /\ HasDoc("memberships", calls[c].data.membershipId)
       THEN /\ store' = Verified(calls[c].data.membershipId)
            /\ revalidated' = Append(revalidated, "/admin/memberships")
            /\ calls' = [Return(c, Result(TRUE, "User already exists. Membership marked as verified."))
                         EXCEPT ![c].writes = @ \cup {<<"memberships", calls[c].data.membershipId>>}]
       ELSE /\ calls' = [calls EXCEPT ![c].pc = "threw"]
            /\ UNCHANGED <<store, revalidated>>
    /\ UNCHANGED <<accounts, uploads, views, ui>>

\* The admin view passes the record's id, email and phone; the action itself
\* accepts any id, address and password.
VerifyInputs ==
    { [membershipId |-> m, email |-> e, password |-> pw] :
        m \in {1, 2}, e \in {"asha@mail.in"}, pw \in {"9876543210"} }
    \cup { [membershipId |-> 1, email |-> "dev@mail.in", password |-> "123"],
           [membershipId |-> 1, email |-> "asha", password |-> "9876543210"] }

NextMembership ==
    \/ CanCall(MaxCalls + 1) /\ \E data \in MembershipInputs : ApplyForMembership(data)
    \/ CanCall(MaxCalls + 1) /\ \E data \in VerifyInputs : VerifyMembership(data)
    \/ \E c \in CallIds, ok \in BOOLEAN : MembershipAddDoc(c, ok)
    \/ \E c \in CallIds, outcome \in CreateCodes : VerifyCreateUser(c, outcome)
    \/ \E c \in CallIds, ok \in BOOLEAN : VerifyUpdateDoc(c, ok)
    \/ \E c \in CallIds, ok \in BOOLEAN : VerifyCatchUpdateDoc(c, ok)

SpecMembership == Init /\ [][NextMembership]_vars

BaseForm ==
    [jobId |-> "j1", fullName |-> "Asha Rao", mobile |-> "9876543210",
     email |-> "asha@mail.in", hasExperience |-> "no", readyToRelocate |-> "yes",
     yearsOfExperience |-> Undefined, confirmInfo |-> "on", agreeTerms |-> "on",
     resume |-> NoFile]

Resumes == {NoFile, [present |-> TRUE, name |-> "cv.pdf", size |-> 0],
            [present |-> TRUE, name |-> "cv.pdf", size |-> 1]}

ApplicationForms ==
    { [BaseForm EXCEPT !.confirmInfo = ci, !.agreeTerms = at, !.resume = r] :
        ci \in {"on", Undefined}, at \in {"on", "off"}, r \in Resumes }
    \cup { [BaseForm EXCEPT !.jobId = "j2", !.yearsOfExperience = y] : y \in {"3", "", "three"} }
    \cup { [BaseForm EXCEPT !.fullName = "A"] }

NextApply ==
    \/ CanCall(MaxCalls) /\ \E form \in ApplicationForms : ApplyForJob(form)
    \/ \E c \in CallIds, ok \in BOOLEAN, now \in 1..MaxTime : ApplyUpload(c, ok, now)
    \/ \E c \in CallIds, ok \in BOOLEAN : ApplyGetUrl(c, ok)
    \/ \E c \in CallIds, ok \in BOOLEAN : ApplyAddDoc(c, ok)

SpecApply == Init /\ [][NextApply]_vars

NextDsr ==
    \/ CanCall(MaxCalls) /\ \E data \in DsrInputs : SubmitDsr(data)
    \/ \E c \in CallIds, ok \in BOOLEAN : SubmitDsrAddDoc(c, ok)

SpecDsr == Init /\ [][NextDsr]_vars

(***************************************************************************)
(* Client views: the employee dashboard, the employee's DSR, call and      *)
(* earnings lists, the admin attendance log and the admin employee report. *)
(* Each fetches on mount; the store does not change while they load.       *)
(***************************************************************************)
\* where("employeeId", "==", uid) over a collection, in commit order.
Matches(coll, uid) == SelectSeq(store[coll], LAMBDA d : d.fields.employeeId = uid)

Reverse(q) == [i \in 1..Len(q) |-> q[Len(q) + 1 - i]]

\* Faulty variant: the count of the whole collection.
getCountUnfiltered(coll, uid) == Len(store[coll])

\* getCountFromServer(query(collection(db, coll), where("employeeId", "==", uid)))
getCountFromServer(coll, uid) == Len(Matches(coll, uid))

\* ... where("employeeId", "==", uid), where("status", "==", "pending")
tasksQuery(uid) ==
    SelectSeq(store["tasks"],
              LAMBDA d : d.fields.employeeId = uid /\ d.fields.status = "pending")

\* Faulty variant: the earnings query without its where clause.
earningsQueryUnfiltered(uid) == store["earnings"]

\* query(collection(db, "earnings"), where("employeeId", "==", user.uid))
earningsQuery(uid) == Matches("earnings", uid)

\* earningsSnapshot.forEach(doc => { totalEarnings += doc.data().amount || 0; })
RECURSIVE ForEachTotal(_, _)
ForEachTotal(docs, totalEarnings) ==
    IF docs = <<>> THEN totalEarnings
    ELSE ForEachTotal(Tail(docs),
                      totalEarnings + (IF Head(docs).fields.amount = 0 THEN 0
                                       ELSE Head(docs).fields.amount))

\* reportData.earnings.reduce((sum, item) => sum + item.amount, 0)
RECURSIVE ReduceTotal(_, _)
ReduceTotal(items, sum) ==
    IF items = <<>> THEN sum ELSE ReduceTotal(Tail(items), sum + Head(items).amount)

\* query(..., where('employeeId', '==', id), orderBy('date', 'desc')) mapped
\* to ({ id: doc.id, ...doc.data() }); date is the commit time.
fetchDataForCollection(colName, employeeId) ==
    LET docs == Reverse(Matches(colName, employeeId))
    IN [i \in 1..Len(docs) |-> docs[i].fields]

\* query(collection(db, 'attendance'), orderBy('date', 'desc'))
attendanceData == LET docs == Reverse(store["attendance"])
                  IN [i \in 1..Len(docs) |-> docs[i].fields]

\* A stored number read as a condition: absent and 0 are falsy.
Truthy(km) == km # <<>> /\ km[1] # 0

\* log.hasTravelled && log.closingKm && log.openingKm
\*     ? (log.closingKm - log.openingKm) : 'N/A'        (<<>> is 'N/A')
TravelCell(log) ==
    IF log.hasTravelled /\ Truthy(log.closingKm) /\ Truthy(log.openingKm)
    THEN <<log.closingKm[1] - log.openingKm[1]>> ELSE <<>>

ListPages == {"DsrPage", "CallsPage", "EarningsPage"}

ListCollection(v) ==
    CASE v = "DsrPage" -> "dsr" [] v = "CallsPage" -> "callLogs" [] v = "EarningsPage" -> "earnings"

ListError(v) ==
    CASE v = "DsrPage" -> "Could not fetch DSR logs."
      [] v = "CallsPage" -> "Could not fetch call logs."
      [] v = "EarningsPage" -> "Could not fetch earnings."

ReportCollections == {"dsr", "callLogs", "earnings"}

View(v) == views[v]

\* A view mounts in a browser tab that shows no other page of its side, and
\* while no other view is loading (views share nothing but the store, which
\* stands still, so their steps commute).
CanMount(v) ==
    /\ views[v].pc = "idle"
    /\ \A w \in ViewNames : views[w].pc \in {"idle", "settled", "no-user"}
    /\ \A w \in (IF v \in EmployeePages THEN EmployeePages ELSE AdminPages) :
         views[w].pc = "idle"

\* useEffect of a page of the employee side: `if (!user) return;`, else the
\* fetch starts with setIsLoading(true).
StartFetch(v, key, pc) ==
    views' = [views EXCEPT ![v] =
                IF key = Undefined THEN [@ EXCEPT !.pc = "no-user"]
                ELSE [@ EXCEPT !.pc = pc, !.key = key, !.isLoading = TRUE,
                               !.fetches = @ + 1]]

\* catch (console.error, and a toast where the page has one) and finally.
FetchFailed(v, toasts) ==
    views' = [views EXCEPT ![v] =
                [@ EXCEPT !.pc = "settled", !.failed = TRUE, !.isLoading = FALSE,
                          !.toasts = @ \o toasts]]

StoreUnchanged == UNCHANGED <<store, accounts, uploads, revalidated, calls, outcomes, ui>>

(* EmployeeDashboardPage *)
DashboardMount(user) ==
    /\ CanMount("EmployeeDashboardPage")
    /\ StartFetch("EmployeeDashboardPage", user, "dsrSnapshot")
    /\ StoreUnchanged

\* const dsrSnapshot = await getCountFromServer(dsrQuery)
DashboardDsrCount(ok) ==
    /\ views["EmployeeDashboardPage"].pc = "dsrSnapshot"
    /\ IF ok
       THEN views' = [views EXCEPT !["EmployeeDashboardPage"] =
                [@ EXCEPT !.pc = "callsSnapshot",
                          !.local.dsrCount = getCountFromServer("dsr", View("EmployeeDashboardPage").key)]]
       ELSE FetchFailed("EmployeeDashboardPage", <<>>)
    /\ StoreUnchanged

\* const callsSnapshot = await getCountFromServer(callsQuery)
DashboardCallCount(ok) ==
    /\ views["EmployeeDashboardPage"].pc = "callsSnapshot"
    /\ IF ok
       THEN views' = [views EXCEPT !["EmployeeDashboardPage"] =
                [@ EXCEPT !.pc = "earningsSnapshot",
                          !.local.callCount = getCountFromServer("callLogs", View("EmployeeDashboardPage").key)]]
       ELSE FetchFailed("EmployeeDashboardPage", <<>>)
    /\ StoreUnchanged

\* const earningsSnapshot = await getDocs(earningsQuery), and the fold.
DashboardEarnings(ok) ==
    /\ views["EmployeeDashboardPage"].pc = "earningsSnapshot"
    /\ IF ok
       THEN views' = [views EXCEPT !["EmployeeDashboardPage"] =
                [@ EXCEPT !.pc = "tasksSnapshot",
                          !.local.totalEarnings = ForEachTotal(earningsQuery(View("EmployeeDashboardPage").key), 0)]]
       ELSE FetchFailed("EmployeeDashboardPage", <<>>)
    /\ StoreUnchanged

\* const tasksSnapshot = await getCountFromServer(tasksQuery); setStats(...);
\* finally setIsLoading(false).
DashboardTasks(ok) ==
    /\ views["EmployeeDashboardPage"].pc = "tasksSnapshot"
    /\ IF ok
       THEN views' = [views EXCEPT !["EmployeeDashboardPage"] =
                [@ EXCEPT !.pc = "settled", !.isLoading = FALSE,
                          !.stats = [View("EmployeeDashboardPage").local EXCEPT !.pendingTasks = Len(tasksQuery(View("EmployeeDashboardPage").key))]]]
       ELSE FetchFailed("EmployeeDashboardPage", <<>>)
    /\ StoreUnchanged

(* DsrPage, CallsPage, EarningsPage: the list of the signed-in employee *)
ListMount(v, user) ==
    /\ v \in ListPages
    /\ CanMount(v)
    /\ StartFetch(v, user, "getDocs")
    /\ StoreUnchanged

\* const querySnapshot = await getDocs(q); setDsrLogs(logs)
ListGetDocs(v, ok) ==
    /\ v \in ListPages
    /\ views[v].pc = "getDocs"
    /\ IF ok
       THEN views' = [views EXCEPT ![v] =
                [@ EXCEPT !.pc = "settled", !.isLoading = FALSE,
                          !.list = fetchDataForCollection(ListCollection(v), View(v).key)]]
       ELSE FetchFailed(v, <<ListError(v)>>)
    /\ StoreUnchanged

(* AttendancePage *)
AttendanceMount ==
    /\ CanMount("AttendancePage")
    /\ StartFetch("AttendancePage", "all", "getDocs")
    /\ StoreUnchanged

\* const attendanceSnapshot = await getDocs(q); setAttendance(attendanceData)
AttendanceGetDocs(ok) ==
    /\ views["AttendancePage"].pc = "getDocs"
    /\ IF ok
       THEN views' = [views EXCEPT !["AttendancePage"] =
                [@ EXCEPT !.pc = "settled", !.isLoading = FALSE, !.list = attendanceData]]
       ELSE FetchFailed("AttendancePage", <<"Failed to load attendance records.">>)
    /\ StoreUnchanged

(* ReportContent *)
\* useEffect: no id in the URL ends loading at once; else fetchAllData.
ReportMount(employeeId) ==
    /\ CanMount("ReportContent")
    /\ views' = [views EXCEPT !["ReportContent"] =
                   IF employeeId = Undefined
                   THEN [@ EXCEPT !.pc = "settled", !.isLoading = FALSE]
                   ELSE [@ EXCEPT !.pc = "getDoc", !.key = employeeId, !.isLoading = TRUE,
                                  !.fetches = @ + 1]]
    /\ StoreUnchanged

EmployeeDoc(id) ==
    SelectSeq(store["employees"], LAMBDA d : d.id = id)

\* const empDocSnap = await getDoc(empDocRef): setEmployee, or throw "Employee
\* not found"; then the three collection fetches are issued together.
ReportGetDoc(ok) ==
    /\ views["ReportContent"].pc = "getDoc"
    /\ IF ~ok
       THEN FetchFailed("ReportContent", <<>>)
       ELSE views' = [views EXCEPT !["ReportContent"] =
                IF EmployeeDoc(View("ReportContent").key) = <<>>
                THEN [@ EXCEPT !.pc = "settled", !.isLoading = FALSE]
                ELSE [@ EXCEPT !.pc = "Promise.all",
                               !.employee = <<EmployeeDoc(View("ReportContent").key)[1].fields>>,
                               !.items = [k \in ReportCollections |-> "pending"]]]
    /\ StoreUnchanged

\* One of the three fetchDataForCollection calls settles.  Promise.all
\* rejects on the first rejection (catch, finally) and fulfils when all three
\* have: setReportData({ dsr, calls, earnings }) and finally.  What a fetch
\* answers after the rejection is dropped.
ReportFetch(colName, ok) ==
    /\ views["ReportContent"].pc = "Promise.all"
    /\ colName \in ReportCollections
    /\ views["ReportContent"].items[colName] = "pending"
    /\ LET items == [views["ReportContent"].items EXCEPT ![colName] = Answer(ok)] IN
         IF ~ok
         THEN views' = [views EXCEPT !["ReportContent"] =
                  [@ EXCEPT !.pc = "settled", !.failed = TRUE, !.isLoading = FALSE,
                            !.items = items]]
         ELSE IF \A k \in ReportCollections : items[k] = "ok"
         THEN views' = [views EXCEPT !["ReportContent"] =
                  [@ EXCEPT !.pc = "settled", !.isLoading = FALSE, !.items = items,
                            !.reportData =
                               [k \in ReportCollections |-> fetchDataForCollection(k, View("ReportContent").key)]]]
         ELSE views' = [views EXCEPT !["ReportContent"].items = items]
    /\ StoreUnchanged

(* What a view shows: [kind, body, toasts]. *)
TravelColumn(logs) == [i \in 1..Len(logs) |-> TravelCell(logs[i])]

Render(v, s) ==
      IF v = "EmployeeDashboardPage"
      THEN IF s.isLoading THEN [kind |-> "skeleton", body |-> <<>>, toasts |-> s.toasts]
           ELSE [kind |-> "cards", toasts |-> s.toasts,
                 body |-> <<s.stats.dsrCount, s.stats.callCount, s.stats.totalEarnings,
                            s.stats.pendingTasks>>]
      ELSE IF v = "ReportContent"
      THEN IF s.isLoading THEN [kind |-> "spinner", body |-> <<>>, toasts |-> s.toasts]
           ELSE IF s.employee = <<>>
           THEN [kind |-> "Employee not found or ID not provided.", body |-> <<>>,
                 toasts |-> s.toasts]
           ELSE [kind |-> "report", toasts |-> s.toasts,
                 body |-> <<Len(s.reportData["dsr"]), Len(s.reportData["callLogs"]),
                            ReduceTotal(s.reportData["earnings"], 0),
                            TravelColumn(s.reportData["dsr"])>>]
      ELSE IF s.isLoading THEN [kind |-> "spinner", body |-> <<>>, toasts |-> s.toasts]
      ELSE IF v = "AttendancePage" /\ s.list = <<>>
      THEN [kind |-> "No attendance records found.", body |-> <<>>, toasts |-> s.toasts]
      ELSE [kind |-> "table", toasts |-> s.toasts,
            body |-> IF v = "DsrPage" THEN TravelColumn(s.list) ELSE s.list]

Rendered(v) == Render(v, views[v])

(* Documents the handlers have written before the views are opened. *)
PriorDsr ==
    { DsrDoc([BaseDsr EXCEPT !.hasTravelled = x[1], !.openingKm = x[2],
                             !.closingKm = x[3], !.employeeId = x[4]]) :
        x \in { <<TrueV, "15000", "15100", "e1">>, <<TrueV, "0", "120", "e1">>,
                <<FalseV, "15000", "15100", "e1">>, <<TrueV, "15000", Undefined, "e2">> } }

PriorCalls ==
    { [BaseCall EXCEPT !.duration = ToNumber(BaseCall.duration).v, !.employeeId = e] :
        e \in {"e1", "e2"} }

\* handleSendWork writes tasks with status 'pending'; another page of the
\* employee side completes them.
PriorTasks ==
    { [employeeId |-> x[1], employeeName |-> "Ravi", title |-> "Survey",
       description |-> "Survey the site", priority |-> "Medium", status |-> x[2]] :
        x \in { <<"e1", "pending">>, <<"e1", "completed">>, <<"e2", "pending">> } }

PriorAttendance ==
    { [status |-> "working", tasks |-> Undefined, employeeId |-> "e1", employeeName |-> "Ravi"] }

PriorDocs ==
    { <<"dsr", f>> : f \in PriorDsr } \cup { <<"callLogs", f>> : f \in PriorCalls }
    \cup { <<"earnings", d.fields>> : d \in PriorEarnings }
    \cup { <<"tasks", f>> : f \in PriorTasks }
    \cup { <<"attendance", f>> : f \in PriorAttendance }

RECURSIVE DocsOf(_, _)
DocsOf(coll, S) ==
    IF \A x \in S : x[1] # coll THEN <<>>
    ELSE LET x == CHOOSE x \in S : x[1] = coll
             rest == DocsOf(coll, S \ {x})
         IN Append(rest, [id |-> Len(rest) + 1, fields |-> x[2], call |-> 0])

\* The Employee documents: e1 and e2 are registered, keyed by their uid.
PriorEmployees ==
    << [id |-> "e1", call |-> 0,
        fields |-> [name |-> "Ravi Kumar", userId |-> "ravi@zensolve.in", status |-> "active"]],
       [id |-> "e2", call |-> 0,
        fields |-> [name |-> "Anu Singh", userId |-> "anu@zensolve.in", status |-> "active"]] >>

InitViews ==
    /\ \E S \in SUBSET PriorDocs :
         /\ Cardinality(S) <= MaxDocs
         /\ store = [c \in Collections |->
                       IF c = "employees" THEN PriorEmployees ELSE DocsOf(c, S)]
    /\ accounts = <<>>
    /\ uploads = <<>>
    /\ revalidated = <<>>
    /\ calls = <<>>
    /\ outcomes = <<>>
    /\ views = NoViews
    /\ ui = NoUi

Users == {"e1", "e2", Undefined}

NextViews ==
    \/ \E user \in Users : DashboardMount(user)
    \/ \E ok \in BOOLEAN : DashboardDsrCount(ok)
    \/ \E ok \in BOOLEAN : DashboardCallCount(ok)
    \/ \E ok \in BOOLEAN : DashboardEarnings(ok)
    \/ \E ok \in BOOLEAN : DashboardTasks(ok)
    \/ \E v \in ListPages, user \in Users : ListMount(v, user)
    \/ \E v \in ListPages, ok \in BOOLEAN : ListGetDocs(v, ok)
    \/ AttendanceMount
    \/ \E ok \in BOOLEAN : AttendanceGetDocs(ok)
    \/ \E employeeId \in {"e1", "e9", Undefined} : ReportMount(employeeId)
    \/ \E ok \in BOOLEAN : ReportGetDoc(ok)
    \/ \E colName \in ReportCollections, ok \in BOOLEAN : ReportFetch(colName, ok)

SpecViews == InitViews /\ [][NextViews]_vars

(***************************************************************************)
(* The admin live pages: MembershipsPage and EmployeesPage subscribe to a  *)
(* query with onSnapshot in their effect and unsubscribe in its cleanup.   *)
(***************************************************************************)
LiveCollection(v) == IF v = "MembershipsPage" THEN "memberships" ELSE "employees"

LiveToast(v) ==
    IF v = "MembershipsPage" THEN "Failed to load membership applications."
    ELSE "Failed to load employees."

\* query(collection(db, ...), orderBy(<commit time>, 'desc')): what the store
\* would answer now.
QueryResult(v) == Reverse(store[LiveCollection(v)])

\* snapshot.docs.map(doc => ({ id: doc.id, ...doc.data() }))
SnapshotData(snapshot) ==
    [i \in 1..Len(snapshot) |-> [id |-> snapshot[i].id, data |-> snapshot[i].fields]]

\* Faulty variant: the new documents are added to the list the page holds.
setListMerged(list, snapshot) == list \o SnapshotData(snapshot)

\* setMemberships(membershipsData) / setEmployees(employeesData)
setList(list, snapshot) == SnapshotData(snapshot)

\* useState(false) of a VerifyButton; call is the verifyMembership invocation
\* handleVerify awaits, 0 when none.
NewButton == [isLoading |-> FALSE, call |-> 0]

\* member.status === 'pending' ? <VerifyButton membership={member} /> : ...
\* for the rows of the list, keyed by member.id: an instance keeps its state
\* while its row shows it and loses it otherwise.
RenderButtons(v, page, old) ==
    IF v # "MembershipsPage" THEN old
    ELSE IF ~page.mounted \/ page.isLoading THEN <<>>
    ELSE LET ids == { page.list[i].id : i \in { j \in DOMAIN page.list :
                                                  page.list[j].data.status = "pending" } }
         IN [id \in ids |-> IF id \in DOMAIN old THEN old[id] ELSE NewButton]

\* The page's state becomes `page`, and its rows are rendered again.
Commit(v, page) ==
    ui' = [ui EXCEPT !.pages[v] = page, !.buttons = RenderButtons(v, page, ui.buttons)]

NewSubscription == [active |-> TRUE, delivered |-> FALSE, seen |-> <<>>, dead |-> FALSE]

\* const unsubscribe = onSnapshot(q, ..., ...)
onSnapshot(page) == [page EXCEPT !.subs = Append(@, NewSubscription)]

\* return () => unsubscribe(): the cleanup releases the subscription that
\* its run of the effect opened.
unsubscribe(page) ==
    [page EXCEPT !.subs = [k \in DOMAIN @ |->
                             IF k = Len(@) THEN [NewSubscription EXCEPT !.active = FALSE]
                             ELSE @[k]]]

\* Fewer than MaxSubs subscriptions have been opened by the page.
CanSubscribe(v) == Len(ui.pages[v].subs) < MaxSubs

\* The admin's tab shows one page at a time.  The page mounts: fresh
\* component state, and the effect runs.
LiveMount(v) ==
    /\ \A w \in LivePages : ~ui.pages[w].mounted
    /\ CanSubscribe(v)
    /\ Commit(v, onSnapshot([NoPage EXCEPT !.mounted = TRUE, !.subs = ui.pages[v].subs]))
    /\ UNCHANGED <<store, accounts, uploads, revalidated, calls, outcomes, views>>

\* The page is torn down: the cleanup runs, and the component's state, the
\* dialog and the buttons go with the page.
LiveUnmount(v) ==
    /\ ui.pages[v].mounted
    /\ Commit(v, unsubscribe([NoPage EXCEPT !.subs = ui.pages[v].subs]))
    /\ UNCHANGED <<store, accounts, uploads, revalidated, calls, outcomes, views>>

\* The success callback of subscription k: the first snapshot, or one after
\* the query's result has changed.
LiveSnapshot(v, k) ==
    /\ k \in DOMAIN ui.pages[v].subs
    /\ LET sub == ui.pages[v].subs[k] IN
         /\ sub.active /\ ~sub.dead
         /\ ~sub.delivered \/ sub.seen # QueryResult(v)
    /\ Commit(v, [ui.pages[v] EXCEPT
                    !.list = setList(@, QueryResult(v)),
                    !.isLoading = FALSE,
                    !.snapshot = <<QueryResult(v)>>,
                    !.subs[k] = [@ EXCEPT !.delivered = TRUE, !.seen = QueryResult(v)]])
    /\ UNCHANGED <<store, accounts, uploads, revalidated, calls, outcomes, views>>

\* The error callback of subscription k, after which the listener is over.
LiveFailed(v, k) ==
    /\ k \in DOMAIN ui.pages[v].subs
    /\ ui.pages[v].subs[k].active /\ ~ui.pages[v].subs[k].dead
    /\ Commit(v, [ui.pages[v] EXCEPT
                    !.isLoading = FALSE,
                    !.toasts = Append(@, LiveToast(v)),
                    !.subs[k].dead = TRUE])
    /\ UNCHANGED <<store, accounts, uploads, revalidated, calls, outcomes, views>>

\* RegisterEmployeeDialog.onSubmit up to `await registerEmployee(values)`;
\* the form's resolver lets only valid values through, and the form submits
\* one at a time.
DialogSubmit(values) ==
    /\ ui.pages["EmployeesPage"].mounted
    /\ ui.pages["EmployeesPage"].awaiting = {}
    /\ registrationSchema(values) = {}
    /\ calls' = Append(calls, registerEmployee(values))
    /\ outcomes' = Append(outcomes, <<>>)
    /\ ui' = [ui EXCEPT !.pages["EmployeesPage"].awaiting = {Len(calls) + 1}]
    /\ UNCHANGED <<store, accounts, uploads, revalidated, views>>

\* The rest of onSubmit: on success onEmployeeRegistered() increments
\* employeeRegistered, a dependency of the page's effect, so the cleanup of
\* the last run and then the effect run again; otherwise a toast.
DialogResult(c) ==
    /\ c \in ui.pages["EmployeesPage"].awaiting
    /\ calls[c].pc = "done"
    /\ LET page == [ui.pages["EmployeesPage"] EXCEPT !.awaiting = {}] IN
         IF calls[c].result.success
         THEN /\ CanSubscribe("EmployeesPage")
              /\ Commit("EmployeesPage",
                        onSnapshot(unsubscribe([page EXCEPT !.employeeRegistered = @ + 1])))
         ELSE Commit("EmployeesPage", [page EXCEPT !.toasts = Append(@, calls[c].result.message)])
    /\ UNCHANGED <<store, accounts, uploads, revalidated, calls, outcomes, views>>

LiveRegistrations ==
    {BaseRegistration, [BaseRegistration EXCEPT !.userId = "anu@zensolve.in"]}

NextLive ==
    \/ \E v \in LivePages : LiveMount(v)
    \/ \E v \in LivePages : LiveUnmount(v)
    \/ \E v \in LivePages, k \in 1..MaxSubs : LiveSnapshot(v, k)
    \/ \E v \in LivePages, k \in 1..MaxSubs : LiveFailed(v, k)
    \/ CanCall(MaxCalls) /\ \E values \in LiveRegistrations : DialogSubmit(values)
    \/ \E c \in CallIds : DialogResult(c)
    \/ \E c \in CallIds, outcome \in CreateCodes : RegisterCreateUser(c, outcome)
    \/ \E c \in CallIds, ok \in BOOLEAN : RegisterSetDoc(c, ok)
    \/ CanCall(MaxCalls) /\ ApplyForMembership(BaseMembership)
    \/ \E c \in CallIds, ok \in BOOLEAN : MembershipAddDoc(c, ok)

SpecLive == Init /\ [][NextLive]_vars

(***************************************************************************)
(* VerifyButton: one per pending row of MembershipsPage.                   *)
(***************************************************************************)
\* The row of the list that the button of membership id was rendered with.
Row(id) ==
    LET list == ui.pages["MembershipsPage"].list
    IN list[CHOOSE i \in DOMAIN list : list[i].id = id]

\* Faulty variant: the address of the signed-in admin is sent.
VerifyDataOwnAddress(membership) ==
    [membershipId |-> membership.id, email |-> "admin@zensolve.in",
     password |-> membership.data.phone]

\* { membershipId: membership.id, email: membership.email,
\*   password: membership.phone }
VerifyData(membership) ==
    [membershipId |-> membership.id, email |-> membership.data.email,
     password |-> membership.data.phone]

\* handleVerify up to `await verifyMembership(...)`: setIsLoading(true) and
\* the call; a disabled button takes no click.
HandleVerify(id) ==
    /\ id \in DOMAIN ui.buttons
    /\ ~ui.buttons[id].isLoading
    /\ calls' = Append(calls, verifyMembership(VerifyData(Row(id))))
    /\ outcomes' = Append(outcomes, <<>>)
    /\ ui' = [ui EXCEPT !.buttons[id] = [isLoading |-> TRUE, call |-> Len(calls) + 1]]
    /\ UNCHANGED <<store, accounts, uploads, revalidated, views>>

\* The call has returned: the toast, and setIsLoading(false).
HandleVerifyResult(id) ==
    /\ id \in DOMAIN ui.buttons
    /\ ui.buttons[id].call # 0
    /\ calls[ui.buttons[id].call].pc = "done"
    /\ ui' = [ui EXCEPT
                !.buttons[id] = [isLoading |-> FALSE, call |-> 0],
                !.pages["MembershipsPage"].toasts =
                    Append(@, calls[ui.buttons[id].call].result.message)]
    /\ UNCHANGED <<store, accounts, uploads, revalidated, calls, outcomes, views>>

\* The call has thrown: the await rejects, nothing in handleVerify catches
\* it, and the statements after the await do not run.
HandleVerifyRejected(id) ==
    /\ id \in DOMAIN ui.buttons
    /\ ui.buttons[id].call # 0
    /\ calls[ui.buttons[id].call].pc = "threw"
    /\ ui' = [ui EXCEPT !.buttons[id].call = 0]
    /\ UNCHANGED <<store, accounts, uploads, revalidated, calls, outcomes, views>>

\* The applications received before the admin opens the page, all pending:
\* one applicant's, some of them repeated, then another applicant's.
PriorMemberships ==
    LET Dev == [BaseMembership EXCEPT !.name = "Dev", !.email = "dev@mail.in",
                                      !.phone = "9123456780"]
    IN { [i \in 1..Len(q) |-> [id |-> i, call |-> 0,
                               fields |-> [name |-> q[i].name, email |-> q[i].email,
                                           phone |-> q[i].phone, district |-> q[i].district,
                                           state |-> q[i].state, utr |-> q[i].utr,
                                           status |-> "pending"]]] :
           q \in { r \in SeqsUpTo({BaseMembership, Dev}, MaxMembers) :
                     \A i \in DOMAIN r :
                        r[i] = Dev => i > 1 /\ \A j \in i..Len(r) : r[j] = Dev } }

InitVerify ==
    /\ \E docs \in PriorMemberships :
         store = [c \in Collections |-> IF c = "memberships" THEN docs ELSE <<>>]
    /\ accounts = <<>>
    /\ uploads = <<>>
    /\ revalidated = <<>>
    /\ calls = <<>>
    /\ outcomes = <<>>
    /\ views = NoViews
    /\ ui = NoUi

NextVerify ==
    \/ LiveMount("MembershipsPage")
    \/ LiveUnmount("MembershipsPage")
    \/ \E k \in 1..MaxSubs : LiveSnapshot("MembershipsPage", k)
    \/ CanCall(MaxCalls) /\ \E id \in 1..MaxMembers : HandleVerify(id)
    \/ \E id \in 1..MaxMembers : HandleVerifyResult(id)
    \/ \E id \in 1..MaxMembers : HandleVerifyRejected(id)
    \/ \E c \in CallIds, outcome \in CreateCodes : VerifyCreateUser(c, outcome)
    \/ \E c \in CallIds, ok \in BOOLEAN : VerifyUpdateDoc(c, ok)
    \/ \E c \in CallIds, ok \in BOOLEAN : VerifyCatchUpdateDoc(c, ok)

SpecVerify == InitVerify /\ [][NextVerify]_vars

(***************************************************************************)
(* JoinMembershipPage: the three-step membership application wizard.       *)
(***************************************************************************)
\* The form's own schema, per field.
membershipSchema(values) ==
    StringMin("name", values.name, 2, "Name is required.")
    \cup StringEmail("email", values.email, "A valid email is required.")
    \cup StringMin("phone", values.phone, 10, "A valid 10-digit phone number is required.")
    \cup (IF Len(values.phone) > 13 THEN {<<"phone", "Phone number is too long.">>} ELSE {})
    \cup StringMin("state", values.state, 1, "State is required.")
    \cup StringMin("district", values.district, 1, "District is required.")
    \cup StringMin("utr", values.utr, 10, "A valid UTR/Transaction ID is required.")

\* The user fills in the fields of the step shown.
WizardType(details) ==
    /\ ui.wizard.call = 0
    /\ \/ /\ ui.wizard.currentStep = 1
          /\ ui' = [ui EXCEPT !.wizard.values =
                      [details EXCEPT !.utr = ui.wizard.values.utr]]
       \/ /\ ui.wizard.currentStep = 2
          /\ ui' = [ui EXCEPT !.wizard.values.utr = details.utr]
    /\ ui'.wizard.values # ui.wizard.values
    /\ UNCHANGED <<store, accounts, uploads, revalidated, calls, outcomes, views>>

\* The Next button of step 1.  handleNext: trigger() on the five fields of
\* the step, and onNext() when they are valid.  The button is also the
\* form's submit button; at step 1 the utr field is empty, the resolver
\* rejects the values and onSubmit is not called.
handleNext ==
    /\ ui.wizard.currentStep = 1
    /\ { e \in membershipSchema(ui.wizard.values) : e[1] # "utr" } = {}
    /\ membershipSchema(ui.wizard.values) # {}
    /\ ui' = [ui EXCEPT !.wizard.currentStep = 2]
    /\ UNCHANGED <<store, accounts, uploads, revalidated, calls, outcomes, views>>

\* The submit button of step 2, enabled while no submission is in progress:
\* form.handleSubmit calls onSubmit with values the resolver accepts, and
\* onSubmit runs up to `await applyForMembership(values)`.
onSubmit ==
    /\ ui.wizard.currentStep = 2
    /\ ui.wizard.call = 0
    /\ membershipSchema(ui.wizard.values) = {}
    /\ Len(ui.wizard.values.utr) >= 10
    /\ calls' = Append(calls, applyForMembership(ui.wizard.values))
    /\ outcomes' = Append(outcomes, <<>>)
    /\ ui' = [ui EXCEPT !.wizard.call = Len(calls) + 1]
    /\ UNCHANGED <<store, accounts, uploads, revalidated, views>>

\* Faulty variant: the confirmation is shown whatever the result.
onSubmitResultAnyResult ==
    /\ ui.wizard.call # 0
    /\ calls[ui.wizard.call].pc = "done"
    /\ ui' = [ui EXCEPT !.wizard.call = 0,
                        !.wizard.membershipId = calls[ui.wizard.call].result.membershipId,
                        !.wizard.currentStep = 3]
    /\ UNCHANGED <<store, accounts, uploads, revalidated, calls, outcomes, views>>

\* The rest of onSubmit: result.success && result.membershipId shows the
\* confirmation, anything else a toast.
onSubmitResult ==
    /\ ui.wizard.call # 0
    /\ calls[ui.wizard.call].pc = "done"
    /\ LET result == calls[ui.wizard.call].result IN
         IF result.success /\ result.membershipId # 0
         THEN ui' = [ui EXCEPT !.wizard.call = 0,
                               !.wizard.membershipId = result.membershipId,
                               !.wizard.currentStep = 3]
         ELSE ui' = [ui EXCEPT !.wizard.call = 0,
                               !.wizard.toasts = Append(@, result.message)]
    /\ UNCHANGED <<store, accounts, uploads, revalidated, calls, outcomes, views>>

\* What the user may type: valid details, a one-letter state (accepted by
\* the form, refused by the handler), a bad address, and a transaction id
\* that is too short.
WizardDetails ==
    { [BaseMembership EXCEPT !.name = n, !.email = e, !.state = st, !.utr = u] :
        n \in {"Asha", "Dev"}, e \in {"asha@mail.in", "asha"}, st \in {"Bihar", "B"},
        u \in {"UTR1234567", "UTR7654321", "123"} }

NextWizard ==
    \/ \E details \in WizardDetails : WizardType(details)
    \/ handleNext
    \/ CanCall(MaxCalls) /\ onSubmit
    \/ onSubmitResult
    \/ \E c \in CallIds, ok \in BOOLEAN : MembershipAddDoc(c, ok)

SpecWizard == Init /\ [][NextWizard]_vars

(***************************************************************************)
(* The handlers that write to the store without an attachment, together,   *)
(* each on a valid and an invalid submission.                              *)
(***************************************************************************)
SomeEarnings ==
    { [earnings |-> q, employeeId |-> "e1", employeeName |-> "Ravi"] :
        q \in {<<>>, <<[description |-> "Fuel", amount |-> "100"]>>,
               <<[description |-> "Fuel", amount |-> "100"],
                 [description |-> "Toll", amount |-> "60"]>>} }

Next ==
    \/ /\ CanCall(MaxCalls)
       /\ \/ \E data \in {BaseJob, [BaseJob EXCEPT !.title = "QA"]} : AddJob(data)
          \/ \E data \in {d \in AttendanceInputs : d.employeeId = "e1" /\ d.status # "leave"} :
                MarkAttendance(data)
          \/ \E data \in {BaseDsr, [BaseDsr EXCEPT !.description = "short"]} : SubmitDsr(data)
          \/ \E data \in {BaseCall, [BaseCall EXCEPT !.duration = "0"]} : LogCall(data)
          \/ \E data \in SomeEarnings : SubmitEarnings(data)
          \/ \E data \in {BaseRegistration, [BaseRegistration EXCEPT !.userId = "bob@gmail.com"]} :
                RegisterEmployee(data)
          \/ \E email \in {"asha@mail.in", "not-an-email"} : SubscribeToNewsletter(email)
          \/ \E data \in {BaseMembership, [BaseMembership EXCEPT !.utr = "123"]} :
                ApplyForMembership(data)
          \/ \E data \in {[membershipId |-> 1, email |-> "asha@mail.in", password |-> "9876543210"],
                          [membershipId |-> 1, email |-> "asha", password |-> "9876543210"]} :
                VerifyMembership(data)
    \/ \E c \in CallIds, ok \in BOOLEAN : AddJobAddDoc(c, ok)
    \/ \E c \in CallIds, ok \in BOOLEAN : MarkAttendanceAddDoc(c, ok)
    \/ \E c \in CallIds, ok \in BOOLEAN : SubmitDsrAddDoc(c, ok)
    \/ \E c \in CallIds, ok \in BOOLEAN : LogCallAddDoc(c, ok)
    \/ \E c \in CallIds, i \in 1..MaxItems, ok \in BOOLEAN : EarningAddDoc(c, i, ok)
    \/ \E c \in CallIds, outcome \in CreateCodes : RegisterCreateUser(c, outcome)
    \/ \E c \in CallIds, ok \in BOOLEAN : RegisterSetDoc(c, ok)
    \/ NewsletterSteps
    \/ \E c \in CallIds, ok \in BOOLEAN : MembershipAddDoc(c, ok)
    \/ \E c \in CallIds, outcome \in CreateCodes : VerifyCreateUser(c, outcome)
    \/ \E c \in CallIds, ok \in BOOLEAN : VerifyUpdateDoc(c, ok)
    \/ \E c \in CallIds, ok \in BOOLEAN : VerifyCatchUpdateDoc(c, ok)

Spec == Init /\ [][Next]_vars

(***************************************************************************)
(* What the claims speak of.                                               *)
(***************************************************************************)
Returned(c) == calls[c].pc = "done"

\* The documents of a collection that invocation c created.
Created(c, coll) == { i \in DOMAIN store[coll] : store[coll][i].call = c }

AccountsBy(c) == { u \in DOMAIN accounts : accounts[u].call = c }

UploadsBy(c) == { u \in DOMAIN uploads : uploads[u].call = c }

\* An external call made for c failed for a reason of the store, the
\* attachment store or the network.
Faulted(c) ==
    \E i \in DOMAIN outcomes[c] : outcomes[c][i] \in {"failed", "auth/network-request-failed"}

CallsOf(h) == { c \in CallIds : calls[c].handler = h }

(***************************************************************************)
(* C1 (as amended).  applyForJob: a submission that passes validation      *)
(* returns success exactly when none of its upload, URL fetch and document *)
(* write fails; on success exactly one new Application document exists,    *)
(* carrying the submitted jobId; on failure none does.                     *)
(***************************************************************************)
C1_ValidApplication ==
    \A c \in CallsOf("applyForJob") :
      applicationSchema(calls[c].data) = {} =>
        /\ ~Returned(c) => Created(c, "applications") = {}
        /\ Returned(c) =>
             /\ calls[c].result.success <=> ~Faulted(c)
             /\ calls[c].result.success =>
                  /\ Cardinality(Created(c, "applications")) = 1
                  /\ \A i \in Created(c, "applications") :
                       store["applications"][i].fields.jobId = calls[c].data.jobId
             /\ ~calls[c].result.success => Created(c, "applications") = {}

\* C1 as stated: every submission that passes validation returns success
\* and leaves exactly one new Application document with its jobId.
C1_Original ==
    \A c \in CallsOf("applyForJob") :
      applicationSchema(calls[c].data) = {} /\ Returned(c) =>
        /\ calls[c].result.success
        /\ Cardinality(Created(c, "applications")) = 1
        /\ \A i \in Created(c, "applications") :
             store["applications"][i].fields.jobId = calls[c].data.jobId

\* A valid submission with a resume has returned success beside one whose
\* write failed.
C1_Witness ==
    \E c, d \in CallsOf("applyForJob") :
      /\ Returned(c) /\ calls[c].result.success /\ calls[c].url # Undefined
      /\ Returned(d) /\ applicationSchema(calls[d].data) = {} /\ Faulted(d)

(***************************************************************************)
(* C2.  applyForJob: a submission whose confirmInfo or agreeTerms is not   *)
(* checked returns success = false with an error on that field, creates no *)
(* Application document and issues no upload; so every stored Application  *)
(* has both flags true.                                                    *)
(***************************************************************************)
Unconfirmed(form) == form.confirmInfo # "on" \/ form.agreeTerms # "on"

C2_Unconfirmed ==
    /\ \A c \in CallsOf("applyForJob") :
         Unconfirmed(calls[c].data) =>
           /\ Returned(c)
           /\ ~calls[c].result.success
           /\ \E e \in calls[c].result.errors : e[1] \in {"confirmInfo", "agreeTerms"}
           /\ Created(c, "applications") = {}
           /\ UploadsBy(c) = {}
           /\ outcomes[c] = <<>>
    /\ \A i \in DOMAIN store["applications"] :
         /\ store["applications"][i].fields.confirmInfo
         /\ store["applications"][i].fields.agreeTerms

\* An unconfirmed submission that carries a non-empty resume has returned.
C2_Witness ==
    \E c \in CallsOf("applyForJob") :
      /\ Unconfirmed(calls[c].data)
      /\ calls[c].data.resume.present /\ calls[c].data.resume.size > 0
      /\ Returned(c)

(***************************************************************************)
(* C3.  submitDsr: with hasTravelled = true the submission fails           *)
(* validation and writes nothing unless openingKm and closingKm are both   *)
(* given and closingKm > openingKm; so every stored DSR with hasTravelled  *)
(* has closingKm > openingKm.                                              *)
(***************************************************************************)
TravelOk(data) ==
    /\ data.openingKm # Undefined /\ ~ToNumber(data.openingKm).nan
    /\ data.closingKm # Undefined /\ ~ToNumber(data.closingKm).nan
    /\ ToNumber(data.closingKm).v > ToNumber(data.openingKm).v

C3_TravelChecked ==
    /\ \A c \in CallsOf("submitDsr") :
         BoolDefault(calls[c].data.hasTravelled) /\ ~TravelOk(calls[c].data) =>
           /\ Returned(c)
           /\ ~calls[c].result.success
           /\ Created(c, "dsr") = {}
    /\ \A i \in DOMAIN store["dsr"] :
         LET d == store["dsr"][i].fields IN
           d.hasTravelled =>
             /\ d.openingKm # <<>> /\ d.closingKm # <<>>
             /\ d.closingKm[1] > d.openingKm[1]

(***************************************************************************)
(* C4.  submitEarnings: an empty line-item sequence fails validation with  *)
(* the minimum-count error and writes nothing; N >= 1 valid line items     *)
(* whose writes all succeed create exactly N Earning documents, each       *)
(* carrying the submission's employeeId.                                   *)
(***************************************************************************)
C4_Earnings ==
    \A c \in CallsOf("submitEarnings") :
      LET data == calls[c].data
          n == Len(data.earnings)
      IN /\ n = 0 =>
              /\ Returned(c) /\ ~calls[c].result.success
              /\ <<"earnings", "Please add at least one earning.">> \in calls[c].result.errors
              /\ Created(c, "earnings") = {}
         /\ earningsSchema(data) # {} => Created(c, "earnings") = {}
         /\ (n >= 1 /\ earningsSchema(data) = {}
               /\ \A i \in DOMAIN calls[c].items : calls[c].items[i] = "ok") =>
              /\ Returned(c) /\ calls[c].result.success
              /\ Cardinality(Created(c, "earnings")) = n
              /\ \A i \in Created(c, "earnings") :
                   store["earnings"][i].fields.employeeId = data.employeeId

\* A submission of two line items has had both writes succeed, in a store
\* that held a document of another employee.
C4_Witness ==
    \E c \in CallsOf("submitEarnings") :
      /\ Len(calls[c].data.earnings) = 2
      /\ \A i \in DOMAIN calls[c].items : calls[c].items[i] = "ok"
      /\ Returned(c)
      /\ \E i \in DOMAIN store["earnings"] :
           store["earnings"][i].fields.employeeId # calls[c].data.employeeId

(***************************************************************************)
(* C5 (as amended).  subscribeToNewsletter, one request after the other:   *)
(* the collection never holds two documents for one email; and of two      *)
(* calls with the same valid email whose store calls all succeed, both     *)
(* return success, exactly one document for the email exists afterwards    *)
(* and the second call writes nothing.                                     *)
(***************************************************************************)
SameEmail(c, d) ==
    /\ c \in CallsOf("subscribeToNewsletter") /\ d \in CallsOf("subscribeToNewsletter")
    /\ c < d
    /\ calls[c].data = calls[d].data
    /\ newsletterSchema(calls[c].data) = {}
    /\ Returned(c) /\ Returned(d)

C5_Sequential ==
    /\ \A e \in NewsletterEmails : Cardinality(Subscribers(e)) <= 1
    /\ \A c, d \in CallIds :
         SameEmail(c, d) /\ ~Faulted(c) /\ ~Faulted(d) =>
           /\ calls[c].result.success /\ calls[d].result.success
           /\ Cardinality(Subscribers(calls[c].data)) = 1
           /\ Created(d, "newsletterSubscribers") = {}

\* C5 as stated: any two completed calls in sequence with the same valid
\* email both return success, leave one document, and the second writes
\* nothing.
C5_Original ==
    \A c, d \in CallIds :
      SameEmail(c, d) =>
        /\ calls[c].result.success /\ calls[d].result.success
        /\ Cardinality(Subscribers(calls[c].data)) = 1
        /\ Created(d, "newsletterSubscribers") = {}

\* The same email has been subscribed twice in sequence, both successfully.
C5_Witness ==
    \E c, d \in CallIds :
      /\ SameEmail(c, d)
      /\ calls[c].result.success /\ calls[d].result.success
      /\ calls[d].result.message = "You are already subscribed!"

(***************************************************************************)
(* C6.  Under any interleaving of concurrent subscribeToNewsletter calls   *)
(* the newsletterSubscribers collection holds at most one document per     *)
(* email.                                                                  *)
(***************************************************************************)
C6_OnePerEmail == \A e \in NewsletterEmails : Cardinality(Subscribers(e)) <= 1

(***************************************************************************)
(* C7.  registerEmployee: a userId that does not end with @zensolve.in     *)
(* returns a validation failure with an error on userId, and the call      *)
(* makes no identity-bridge call, writes no Employee and invalidates no    *)
(* page; so every account and Employee has a userId of the domain, and     *)
(* pages are invalidated only by calls that wrote an Employee.             *)
(***************************************************************************)
C7_DomainSuffix ==
    /\ \A c \in CallsOf("registerEmployee") :
         ~endsWith(calls[c].data.userId, DomainSuffix) =>
           /\ Returned(c)
           /\ ~calls[c].result.success
           /\ calls[c].result.message = "Invalid registration data. Please check all fields."
           /\ <<"userId", "User ID must end with @zensolve.in">> \in calls[c].result.errors
           /\ outcomes[c] = <<>>
           /\ AccountsBy(c) = {}
           /\ Created(c, "employees") = {}
    /\ \A u \in DOMAIN accounts : endsWith(accounts[u].email, DomainSuffix)
    /\ \A i \in DOMAIN store["employees"] :
         endsWith(store["employees"][i].fields.userId, DomainSuffix)
    /\ Len(revalidated) =
         Cardinality({ c \in CallsOf("registerEmployee") : Created(c, "employees") # {} })

\* A registration with a foreign userId has returned after another
\* registration created an account and an Employee.
C7_Witness ==
    \E c, d \in CallsOf("registerEmployee") :
      /\ c < d
      /\ Created(c, "employees") # {}
      /\ calls[d].data.userId = "bob@gmail.com"
      /\ Returned(d)

(***************************************************************************)
(* C8 (as amended).  verifyMembership under "identity already exists": a   *)
(* call that finds the identity existing still goes on to the status       *)
(* update, and when that update commits it returns success, leaves the     *)
(* Membership verified and creates no account; a call whose account        *)
(* creation and status update both succeed returns success and leaves the  *)
(* Membership verified; and no email ever has two accounts.                *)
(***************************************************************************)
Membership(id) ==
    CHOOSE d \in { store["memberships"][i] : i \in DOMAIN store["memberships"] } : d.id = id

AccountsOf(email) == { u \in DOMAIN accounts : accounts[u].email = email }

C8_VerifyIdempotent ==
    /\ \A u1, u2 \in DOMAIN accounts : accounts[u1].email = accounts[u2].email => u1 = u2
    /\ \A c \in CallsOf("verifyMembership") :
         /\ outcomes[c] = <<"auth/email-already-in-use">> => calls[c].pc = "catch.updateDoc"
         /\ outcomes[c] = <<"auth/email-already-in-use", "ok">> =>
              /\ Returned(c) /\ calls[c].result.success
              /\ Membership(calls[c].data.membershipId).fields.status = "verified"
              /\ AccountsBy(c) = {}
              /\ Cardinality(AccountsOf(calls[c].data.email)) = 1
         /\ outcomes[c] = <<"ok", "ok">> =>
              /\ Returned(c) /\ calls[c].result.success
              /\ Membership(calls[c].data.membershipId).fields.status = "verified"
              /\ AccountsOf(calls[c].data.email) = AccountsBy(c)
              /\ Cardinality(AccountsBy(c)) = 1

\* The second of two calls on one membership found the identity existing.
Twice(c, d) ==
    /\ c \in CallsOf("verifyMembership") /\ d \in CallsOf("verifyMembership")
    /\ c < d
    /\ calls[c].data = calls[d].data
    /\ calls[c].pc \in {"done", "threw"} /\ calls[d].pc \in {"done", "threw"}
    /\ HasDoc("memberships", calls[c].data.membershipId)
    /\ AccountsBy(c) # {}
    /\ outcomes[d] # <<>> /\ outcomes[d][1] = "auth/email-already-in-use"

\* C8 as stated: called twice on the same membership, the second call
\* finding the identity created by the first, it returns success both times,
\* the Membership is verified and the email has exactly one account.
C8_Original ==
    \A c, d \in CallIds :
      Twice(c, d) =>
        /\ Returned(c) /\ calls[c].result.success
        /\ Returned(d) /\ calls[d].result.success
        /\ Membership(calls[c].data.membershipId).fields.status = "verified"
        /\ Cardinality(AccountsOf(calls[c].data.email)) = 1

\* Two calls on one membership have both returned success, the second by
\* the "already exists" path.
C8_Witness ==
    \E c, d \in CallIds :
      /\ Twice(c, d)
      /\ calls[c].result.success /\ calls[d].result.success
      /\ outcomes[d] = <<"auth/email-already-in-use", "ok">>

(***************************************************************************)
(* C9.  Membership status is monotonic: a Membership document is created   *)
(* with status "pending", documents are never removed, and no step takes a *)
(* verified document back to pending.                                      *)
(***************************************************************************)
C9_Monotonic ==
    [][ LET old == store["memberships"]
            new == store'["memberships"]
        IN /\ DOMAIN old \subseteq DOMAIN new
           /\ \A i \in DOMAIN old :
                /\ new[i].id = old[i].id
                /\ old[i].fields.status = "verified" => new[i].fields.status = "verified"
           /\ \A i \in DOMAIN new \ DOMAIN old : new[i].fields.status = "pending" ]_vars

\* A membership has been verified and, after that call, another application
\* by the same applicant has been stored.
C9_Witness ==
    \E c \in CallsOf("verifyMembership"), d \in CallsOf("applyForMembership") :
      /\ c < d
      /\ Returned(c) /\ calls[c].result.success
      /\ Returned(d) /\ calls[d].result.success
      /\ Membership(calls[c].data.membershipId).fields.status = "verified"
      /\ Membership(calls[c].data.membershipId).fields.email = calls[d].data.email

(***************************************************************************)
(* C10 (as amended).  addJob, markAttendance, submitDsr, logCall,          *)
(* submitEarnings, applyForMembership, subscribeToNewsletter and           *)
(* verifyMembership: a call whose input fails validation returns failure   *)
(* having made no external call, so the store, the identity bridge and     *)
(* the attachment store are as they were; a call that returns success has  *)
(* performed exactly one logical write (one document, or one per line item *)
(* for earnings), except that subscribeToNewsletter returns success with   *)
(* no write when the email is already subscribed.                          *)
(***************************************************************************)
Handlers ==
    {"addJob", "markAttendance", "submitDsr", "logCall", "submitEarnings",
     "applyForMembership", "subscribeToNewsletter", "verifyMembership"}

ValidationErrors(c) ==
    LET data == calls[c].data IN
      CASE calls[c].handler = "addJob" -> jobSchema(data)
        [] calls[c].handler = "markAttendance" -> attendanceSchema(data)
        [] calls[c].handler = "submitDsr" -> dsrSchema(data)
        [] calls[c].handler = "logCall" -> callLogSchema(data)
        [] calls[c].handler = "submitEarnings" -> earningsSchema(data)
        [] calls[c].handler = "applyForMembership" -> membershipApplicationSchema(data)
        [] calls[c].handler = "subscribeToNewsletter" -> newsletterSchema(data)
        [] calls[c].handler = "verifyMembership" -> verifyMembershipSchema(data)

ExpectedWrites(c) ==
    IF calls[c].handler = "submitEarnings" THEN Len(calls[c].data.earnings) ELSE 1

\* Every document the store holds as created by c is one of c's writes.
CreatedAreWrites(c) ==
    \A coll \in Collections : \A i \in Created(c, coll) :
      <<coll, store[coll][i].id>> \in calls[c].writes

NoEffect(c) ==
    /\ outcomes[c] = <<>>
    /\ calls[c].writes = {}
    /\ \A coll \in Collections : Created(c, coll) = {}
    /\ AccountsBy(c) = {}
    /\ UploadsBy(c) = {}

AlreadySubscribed(c) ==
    /\ calls[c].handler = "subscribeToNewsletter"
    /\ calls[c].result.message = "You are already subscribed!"

C10_Frame ==
    \A c \in CallIds :
      calls[c].handler \in Handlers =>
        /\ CreatedAreWrites(c)
        /\ ValidationErrors(c) # {} =>
             Returned(c) /\ ~calls[c].result.success /\ NoEffect(c)
        /\ Returned(c) /\ calls[c].result.success =>
             IF AlreadySubscribed(c) THEN calls[c].writes = {}
             ELSE Cardinality(calls[c].writes) = ExpectedWrites(c)

\* C10 as stated: every call that succeeds has performed exactly one
\* logical write.
C10_Original ==
    \A c \in CallIds :
      calls[c].handler \in Handlers =>
        /\ ValidationErrors(c) # {} =>
             Returned(c) /\ ~calls[c].result.success /\ NoEffect(c)
        /\ Returned(c) /\ calls[c].result.success =>
             Cardinality(calls[c].writes) = ExpectedWrites(c)

\* An invalid submission has been refused and a two-item earnings
\* submission has succeeded.
C10_Witness ==
    \E c, d \in CallIds :
      /\ calls[c].handler \in Handlers /\ ValidationErrors(c) # {} /\ Returned(c)
      /\ calls[d].handler = "submitEarnings" /\ Len(calls[d].data.earnings) = 2
      /\ Returned(d) /\ calls[d].result.success

(***************************************************************************)
(* C11.  applyForJob with a non-empty attachment: the upload and the       *)
(* retrieval-URL fetch have both completed when the Application document   *)
(* write is issued, the written document carries the retrieval URL of the  *)
(* call's own upload, and if the upload or the URL fetch fails the handler *)
(* returns failure and no Application document is written.                 *)
(***************************************************************************)
WithResume(c) ==
    /\ c \in CallsOf("applyForJob")
    /\ applicationSchema(calls[c].data) = {}
    /\ calls[c].data.resume.present /\ calls[c].data.resume.size > 0

C11_UploadBeforeWrite ==
    \A c \in CallIds :
      WithResume(c) =>
        /\ (calls[c].pc = "addDoc" \/ Created(c, "applications") # {}) =>
             /\ Len(outcomes[c]) >= 2
             /\ outcomes[c][1] = "ok" /\ outcomes[c][2] = "ok"
             /\ Cardinality(UploadsBy(c)) = 1
             /\ \A u \in UploadsBy(c) :
                  /\ calls[c].url = DownloadURL(uploads[u].path)
                  /\ uploads[u].path =
                       ResumePath(calls[c].data.jobId, uploads[u].time, calls[c].data.resume.name)
        /\ \A i \in Created(c, "applications") :
             store["applications"][i].fields.resumeUrl = calls[c].url
        /\ (\E k \in DOMAIN outcomes[c] : k <= 2 /\ outcomes[c][k] = "failed") =>
             /\ Returned(c) /\ ~calls[c].result.success
             /\ Created(c, "applications") = {}

\* One submission with a resume has been stored with its URL and another has
\* had its upload fail.
C11_Witness ==
    \E c, d \in CallIds :
      /\ WithResume(c) /\ Created(c, "applications") # {} /\ Returned(c)
      /\ WithResume(d) /\ outcomes[d] = <<"failed">> /\ Returned(d)

(***************************************************************************)
(* C12.  submitEarnings fan-out/join: the handler returns success exactly  *)
(* when every line-item write succeeded; as soon as one write fails it     *)
(* returns failure with the fixed message and no indication of which items *)
(* were written; and the documents of the line items whose writes          *)
(* succeeded, also of writes that settle after the handler has returned,   *)
(* stay in the store: nothing is rolled back.                              *)
(***************************************************************************)
ItemsIn(c, state) == { i \in DOMAIN calls[c].items : calls[c].items[i] = state }

C12_FanOutJoin ==
    \A c \in CallsOf("submitEarnings") :
      earningsSchema(calls[c].data) = {} =>
        /\ Returned(c) =>
             (calls[c].result.success <=> ItemsIn(c, "ok") = DOMAIN calls[c].items)
        /\ ItemsIn(c, "ok") = DOMAIN calls[c].items => Returned(c)
        /\ ItemsIn(c, "failed") # {} =>
             /\ Returned(c)
             /\ calls[c].result = Result(FALSE, "Failed to submit earnings.")
        /\ Cardinality(Created(c, "earnings")) = Cardinality(ItemsIn(c, "ok"))
        /\ \A i \in ItemsIn(c, "ok") : \E k \in Created(c, "earnings") :
             store["earnings"][k].fields.description = calls[c].data.earnings[i].description

\* A submission has returned failure after one write failed, and the
\* document of a write that settled after the return is in the store.
C12_Witness ==
    \E c \in CallsOf("submitEarnings") :
      /\ Returned(c) /\ ~calls[c].result.success
      /\ ItemsIn(c, "failed") # {}
      /\ \E i \in calls[c].late : calls[c].items[i] = "ok"
      /\ Created(c, "earnings") # {}

(***************************************************************************)
(* C13 (as amended).  Employee documents and identity-bridge accounts:     *)
(* every Employee document is keyed by the identifier of an account that   *)
(* the same registerEmployee call created for the document's userId, so    *)
(* the document write is issued only after account creation succeeded, and *)
(* no two Employee documents share an account; an account created by a     *)
(* registration that has returned has an Employee document exactly when    *)
(* that registration returned success, and otherwise its document write    *)
(* failed and the account stays without a document.                        *)
(***************************************************************************)
EmployeeOf(u) == { i \in DOMAIN store["employees"] : store["employees"][i].id = u }

NoRegistrationInProgress == \A c \in CallsOf("registerEmployee") : Returned(c)

C13_Paired ==
    /\ \A i \in DOMAIN store["employees"] :
         LET d == store["employees"][i] IN
           /\ d.id \in DOMAIN accounts
           /\ accounts[d.id].email = d.fields.userId
           /\ accounts[d.id].call = d.call
           /\ EmployeeOf(d.id) = {i}
    /\ \A u \in DOMAIN accounts :
         LET c == accounts[u].call IN
           /\ calls[c].pc = "setDoc" => EmployeeOf(u) = {}
           /\ Returned(c) =>
                /\ EmployeeOf(u) # {} <=> calls[c].result.success
                /\ ~calls[c].result.success => outcomes[c] = <<"ok", "failed">>

\* C13 as stated: whenever no registration is in progress, every Employee
\* document is keyed by an account created for its userId and every account
\* has an Employee document.
C13_Original ==
    NoRegistrationInProgress =>
      /\ \A i \in DOMAIN store["employees"] :
           /\ store["employees"][i].id \in DOMAIN accounts
           /\ accounts[store["employees"][i].id].email = store["employees"][i].fields.userId
      /\ \A u \in DOMAIN accounts : EmployeeOf(u) # {}

\* Two registrations have returned: one left an account with its Employee
\* document, the other an account whose document write failed.
C13_Witness ==
    /\ NoRegistrationInProgress
    /\ \E u, v \in DOMAIN accounts :
         /\ EmployeeOf(u) # {} /\ calls[accounts[u].call].result.success
         /\ EmployeeOf(v) = {} /\ outcomes[accounts[v].call] = <<"ok", "failed">>

(***************************************************************************)
(* C14.  Every submission handler returns a result value for every outcome *)
(* of its store, upload and identity-bridge calls: no failure of an        *)
(* external call leaves a handler as an exception, and a call one of whose *)
(* external calls failed returns success = false.                          *)
(***************************************************************************)
Threw(c) == calls[c].pc = "threw"

C14_NeverThrows ==
    \A c \in CallIds :
      /\ ~Threw(c)
      /\ Returned(c) /\ Faulted(c) => ~calls[c].result.success

(***************************************************************************)
(* C15.  Employee dashboard counts: when its four fetches succeed the view *)
(* is loaded (not loading, no error) and shows, for DSRs, calls and        *)
(* pending tasks, the number of documents of the collection whose          *)
(* employeeId is the signed-in employee (and, for tasks, whose status is   *)
(* 'pending'); with no matching DSR document it shows 0.                   *)
(***************************************************************************)
DocsFor(coll, uid) ==
    { i \in DOMAIN store[coll] : store[coll][i].fields.employeeId = uid }

DashboardLoaded ==
    /\ views["EmployeeDashboardPage"].pc = "settled"
    /\ ~views["EmployeeDashboardPage"].failed

C15_Counts ==
    DashboardLoaded =>
      LET s == views["EmployeeDashboardPage"]
          shown == Rendered("EmployeeDashboardPage")
      IN /\ ~s.isLoading
         /\ shown.kind = "cards" /\ shown.toasts = <<>>
         /\ shown.body[1] = Cardinality(DocsFor("dsr", s.key))
         /\ shown.body[2] = Cardinality(DocsFor("callLogs", s.key))
         /\ shown.body[4] =
              Cardinality({ i \in DocsFor("tasks", s.key) :
                              store["tasks"][i].fields.status = "pending" })
         /\ DocsFor("dsr", s.key) = {} => s.stats.dsrCount = 0

\* The dashboard of an employee without a DSR has loaded while the store
\* holds another employee's DSR.
C15_Witness ==
    /\ DashboardLoaded
    /\ DocsFor("dsr", views["EmployeeDashboardPage"].key) = {}
    /\ store["dsr"] # <<>>
    /\ Rendered("EmployeeDashboardPage").body[1] = 0

(***************************************************************************)
(* C16.  Identity-bridge error mapping in registerEmployee and             *)
(* verifyMembership: a registration refused because the identity exists    *)
(* returns the "already taken" message, one refused for a weak password    *)
(* its tailored message, and any other identity-bridge failure makes the   *)
(* handler return its fixed generic message, never the error's own text;   *)
(* no such registration writes an Employee document.                       *)
(***************************************************************************)
BridgeRefused(c) ==
    /\ calls[c].handler \in {"registerEmployee", "verifyMembership"}
    /\ outcomes[c] # <<>>
    /\ outcomes[c][1] \in CreateCodes \ {"ok"}

C16_ErrorMapping ==
    \A c \in CallIds :
      BridgeRefused(c) =>
        LET code == outcomes[c][1] IN
          IF calls[c].handler = "registerEmployee"
          THEN /\ Returned(c) /\ ~calls[c].result.success
               /\ calls[c].result.message =
                    (IF code = "auth/email-already-in-use"
                     THEN "This User ID is already taken. Please try with a different User ID."
                     ELSE IF code = "auth/weak-password"
                     THEN "The password is too weak. It must be at least 6 characters long."
                     ELSE "Failed to register employee. Please try again.")
               /\ Created(c, "employees") = {}
          ELSE code # "auth/email-already-in-use" =>
                 /\ Returned(c) /\ ~calls[c].result.success
                 /\ calls[c].result.message = "Failed to verify membership."

(***************************************************************************)
(* C17.  Employee report assembly: the view renders report content only    *)
(* after the Employee fetch and all three collection fetches (dsr,         *)
(* callLogs, earnings) succeeded, the three lists being set together at    *)
(* the join; and if any fetch fails the view shows a fetch error and no    *)
(* report.                                                                 *)
(***************************************************************************)
AllFetched(s) ==
    /\ s.employee # <<>>
    /\ s.items # <<>>
    /\ \A k \in ReportCollections : s.items[k] = "ok"

C17_ReportJoin ==
    LET s == views["ReportContent"]
        shown == Rendered("ReportContent")
    IN /\ shown.kind = "report" => AllFetched(s)
       /\ ~AllFetched(s) => \A k \in ReportCollections : s.reportData[k] = <<>>
       /\ s.failed => shown.kind # "report" /\ shown.kind # "spinner"

(***************************************************************************)
(* C18.  Each data view goes loading -> loaded | errored: a view whose     *)
(* fetch has ended is no longer loading, has issued its fetch once, and,   *)
(* when the fetch failed, shows the user an error, so that what it shows   *)
(* differs from what it shows when loaded with no data.                    *)
(***************************************************************************)
\* What view v shows after a fetch that succeeded and found nothing.
LoadedEmpty(v) ==
    Render(v, [Unmounted EXCEPT
                 !.isLoading = FALSE,
                 !.employee = IF v = "ReportContent" /\ views[v].key # Undefined
                                   /\ EmployeeDoc(views[v].key) # <<>>
                              THEN <<EmployeeDoc(views[v].key)[1].fields>> ELSE <<>>])

SameShown(r1, r2) == r1.kind = r2.kind /\ r1.toasts = r2.toasts /\ r1.body = r2.body

C18_ErrorShown ==
    \A v \in ViewNames :
      views[v].pc = "settled" =>
        /\ ~views[v].isLoading
        /\ views[v].fetches <= 1
        /\ views[v].failed => ~SameShown(Rendered(v), LoadedEmpty(v))

(***************************************************************************)
(* C19: in the DSR list and in the employee report, the travel column of   *)
(* every displayed DSR record shows closingKm - openingKm exactly when     *)
(* hasTravelled is true and both openingKm and closingKm have a value, and *)
(* shows N/A in every other case.                                          *)
(***************************************************************************)
DisplayedDsr(v) ==
    IF views[v].isLoading THEN <<>>
    ELSE IF v = "DsrPage" THEN views[v].list
    ELSE IF views[v].employee = <<>> THEN <<>>
    ELSE views[v].reportData["dsr"]

TravelShown(v) ==
    IF DisplayedDsr(v) = <<>> THEN <<>>
    ELSE IF v = "DsrPage" THEN Rendered(v).body ELSE Rendered(v).body[4]

C19_TravelColumn ==
    \A v \in {"DsrPage", "ReportContent"} :
      LET logs == DisplayedDsr(v) IN
        /\ Len(TravelShown(v)) = Len(logs)
        /\ \A i \in 1..Len(logs) :
             TravelShown(v)[i] =
               IF logs[i].hasTravelled /\ logs[i].openingKm # <<>> /\ logs[i].closingKm # <<>>
               THEN <<logs[i].closingKm[1] - logs[i].openingKm[1]>>
               ELSE <<>>

(***************************************************************************)
(* C20: once its fetches have succeeded, the total earnings a view shows   *)
(* for an employee is the sum of amount over exactly the Earning documents *)
(* of the store whose employeeId is that employee, other employees'        *)
(* documents adding nothing; the dashboard and the admin report opened for *)
(* the same employee show the same total.                                  *)
(***************************************************************************)
RECURSIVE AmountOver(_)
AmountOver(ids) ==
    IF ids = {} THEN 0
    ELSE LET i == CHOOSE i \in ids : TRUE
         IN store["earnings"][i].fields.amount + AmountOver(ids \ {i})

ReportLoaded ==
    /\ views["ReportContent"].pc = "settled"
    /\ AllFetched(views["ReportContent"])

C20_Totals ==
    /\ DashboardLoaded =>
         Rendered("EmployeeDashboardPage").body[3] =
           AmountOver(DocsFor("earnings", views["EmployeeDashboardPage"].key))
    /\ ReportLoaded =>
         /\ Rendered("ReportContent").kind = "report"
         /\ Rendered("ReportContent").body[3] =
              AmountOver(DocsFor("earnings", views["ReportContent"].key))
    /\ ( /\ DashboardLoaded /\ ReportLoaded
         /\ views["EmployeeDashboardPage"].key = views["ReportContent"].key )
       => Rendered("EmployeeDashboardPage").body[3] = Rendered("ReportContent").body[3]

\* The dashboard and the report have both loaded for the same employee, who has
\* an Earning, while the store also holds an Earning of another employee.
C20_Witness ==
    /\ DashboardLoaded /\ ReportLoaded
    /\ views["EmployeeDashboardPage"].key = views["ReportContent"].key
    /\ DocsFor("earnings", views["ReportContent"].key) # {}
    /\ \E i \in DOMAIN store["earnings"] :
         store["earnings"][i].fields.employeeId # views["ReportContent"].key
    /\ Rendered("ReportContent").body[3] > 0

(***************************************************************************)
(* C21.  Live-list pages (admin memberships, admin employees): after every *)
(* snapshot the subscription delivers, the list the page holds is that     *)
(* snapshot in full, document for document, with nothing of the previous   *)
(* list merged in; a page holds at most one active subscription at a time  *)
(* (the employees page releases the old one before it subscribes again     *)
(* after a registration); and after the page's teardown the subscription   *)
(* is released and no snapshot changes the list any more.                  *)
(***************************************************************************)
ActiveSubs(v) == { k \in DOMAIN ui.pages[v].subs : ui.pages[v].subs[k].active }

C21_LiveList ==
    \A v \in LivePages :
      LET page == ui.pages[v] IN
        /\ page.snapshot # <<>> =>
             LET docs == page.snapshot[1] IN
               /\ Len(page.list) = Len(docs)
               /\ \A i \in 1..Len(docs) :
                    page.list[i].id = docs[i].id /\ page.list[i].data = docs[i].fields
        /\ Cardinality(ActiveSubs(v)) <= 1
        /\ ~page.mounted => ActiveSubs(v) = {} /\ page.list = <<>> /\ page.snapshot = <<>>

\* The employees page has subscribed again after a registration, and the new
\* subscription has delivered a snapshot with a document, while the first one
\* is released.
C21_Witness ==
    LET page == ui.pages["EmployeesPage"] IN
      /\ page.mounted /\ page.employeeRegistered = 1
      /\ Len(page.subs) = 2
      /\ ~page.subs[1].active /\ page.subs[2].active /\ page.subs[2].delivered
      /\ page.list # <<>>

(***************************************************************************)
(* C22.  Cache invalidation: every successful write by addJob,             *)
(* registerEmployee, subscribeToNewsletter, applyForMembership and         *)
(* verifyMembership has, by the time the handler returns, been followed by *)
(* an invalidation of the listing page of what it wrote; and no            *)
(* invalidation is issued when the write did not happen.                   *)
(***************************************************************************)
ListingPath(h) ==
    CASE h = "addJob" -> "/jobs"
      [] h = "registerEmployee" -> "/admin/employees"
      [] h = "subscribeToNewsletter" -> "/admin/newsletter"
      [] h \in {"applyForMembership", "verifyMembership"} -> "/admin/memberships"

Invalidations(path) == Cardinality({ i \in DOMAIN revalidated : revalidated[i] = path })

Writers(path) ==
    { c \in CallIds :
        /\ calls[c].handler \in {"addJob", "registerEmployee", "subscribeToNewsletter",
                                  "applyForMembership", "verifyMembership"}
        /\ ListingPath(calls[c].handler) = path
        /\ calls[c].writes # {} }

C22_Invalidation ==
    \A path \in {"/jobs", "/admin/employees", "/admin/newsletter", "/admin/memberships"} :
      /\ Invalidations(path) <= Cardinality(Writers(path))
      /\ Cardinality({ c \in Writers(path) : Returned(c) }) <= Invalidations(path)

(***************************************************************************)
(* C23.  Numeric coercion in the handlers' schemas (call duration, earning *)
(* amount, DSR openingKm and closingKm, years of experience): a string     *)
(* that is not a base-10 number, the empty string included, fails          *)
(* validation and no document is written; it is never accepted and stored  *)
(* as 0.                                                                   *)
(***************************************************************************)
IsBase10(str) ==
    \/ IsDigits(str)
    \/ Len(str) > 1 /\ SubSeq(str, 1, 1) = "-" /\ IsDigits(SubSeq(str, 2, Len(str)))

\* The strings submitted for the numeric fields of invocation c.
NumericInputs(c) ==
    LET data == calls[c].data IN
      CASE calls[c].handler = "submitDsr" -> {data.openingKm, data.closingKm} \ {Undefined}
        [] calls[c].handler = "logCall" -> {data.duration} \ {Undefined}
        [] calls[c].handler = "submitEarnings" ->
             { data.earnings[i].amount : i \in DOMAIN data.earnings } \ {Undefined}
        [] calls[c].handler = "applyForJob" -> {data.yearsOfExperience} \ {Undefined}
        [] OTHER -> {}

C23_NoSilentZero ==
    \A c \in CallIds :
      (\E str \in NumericInputs(c) : ~IsBase10(str)) =>
        /\ Returned(c) /\ ~calls[c].result.success
        /\ calls[c].result.errors # {}
        /\ calls[c].writes = {}

(***************************************************************************)
(* C24.  In every reachable state every DSR, CallLog, Earning, Attendance  *)
(* and Task document carries an employeeId that is the key of an existing  *)
(* Employee document; a submission whose employeeId identifies no Employee *)
(* is rejected without a write.                                            *)
(***************************************************************************)
BelongsToEmployee == {"dsr", "callLogs", "earnings", "attendance", "tasks"}

C24_ValidEmployee ==
    /\ \A coll \in BelongsToEmployee : \A i \in DOMAIN store[coll] :
         HasDoc("employees", store[coll][i].fields.employeeId)
    /\ \A c \in CallIds :
         ( /\ calls[c].handler \in {"markAttendance", "submitDsr", "logCall", "submitEarnings"}
           /\ ~HasDoc("employees", calls[c].data.employeeId) )
         => Returned(c) /\ ~calls[c].result.success /\ calls[c].writes = {}

(***************************************************************************)
(* C25.  markAttendance enforces no per-day uniqueness: every valid call   *)
(* whose write the store accepts creates a new Attendance document,        *)
(* whatever records exist already, so that k successful calls by one       *)
(* employee on one day leave k Attendance documents of that employee.      *)
(***************************************************************************)
Accepted(c) == attendanceSchema(calls[c].data) = {} /\ outcomes[c] = <<"ok">>

C25_NoUniqueness ==
    /\ \A c \in CallsOf("markAttendance") :
         Accepted(c) =>
           /\ Returned(c) /\ calls[c].result.success
           /\ Cardinality(Created(c, "attendance")) = 1
    /\ \A e \in {"e1", "e2"} :
         Cardinality({ i \in DOMAIN store["attendance"] :
                         store["attendance"][i].fields.employeeId = e })
         = Cardinality({ c \in CallsOf("markAttendance") :
                           calls[c].data.employeeId = e /\ Accepted(c) })

\* Two calls by the same employee have both succeeded.
C25_Witness ==
    \E c, d \in CallsOf("markAttendance") :
      /\ c # d /\ Accepted(c) /\ Accepted(d)
      /\ calls[c].data.employeeId = calls[d].data.employeeId
      /\ Cardinality({ i \in DOMAIN store["attendance"] :
                         store["attendance"][i].fields.employeeId = calls[c].data.employeeId }) = 2

(***************************************************************************)
(* C26.  Under any interleaving of concurrent registerEmployee calls no    *)
(* two Employee documents carry the same userId: of several registrations  *)
(* with the same userId at most one reaches the Employee write, and the    *)
(* others return failure without writing.                                  *)
(***************************************************************************)
ReachedWrite(c) == calls[c].uid # 0

C26_UniqueUserId ==
    /\ \A i, j \in DOMAIN store["employees"] :
         i # j => store["employees"][i].fields.userId # store["employees"][j].fields.userId
    /\ \A c, d \in CallsOf("registerEmployee") :
         c # d /\ calls[c].data.userId = calls[d].data.userId =>
           ~(ReachedWrite(c) /\ ReachedWrite(d))
    /\ \A c \in CallsOf("registerEmployee") :
         Returned(c) /\ ~ReachedWrite(c) =>
           ~calls[c].result.success /\ calls[c].writes = {}

\* Two registrations with the same userId were in progress together; one
\* wrote its Employee document and the other was refused by the bridge.
C26_Witness ==
    \E c, d \in CallsOf("registerEmployee") :
      /\ c # d /\ calls[c].data.userId = calls[d].data.userId
      /\ Returned(c) /\ calls[c].result.success /\ calls[c].writes # {}
      /\ Returned(d) /\ outcomes[d] = <<"auth/email-already-in-use">>
      /\ c > d

(***************************************************************************)
(* C28.  verifyMembership: when account creation fails for a reason other  *)
(* than "already exists", the handler returns success = false, issues no   *)
(* store update, so that the Membership stays as it was (pending unless    *)
(* another call verified it), and issues no cache invalidation; when the   *)
(* input fails validation it makes no identity-bridge call and no store    *)
(* update.                                                                 *)
(***************************************************************************)
CreationFailed(c) ==
    /\ outcomes[c] # <<>>
    /\ outcomes[c][1] \notin {"ok", "auth/email-already-in-use"}

VerifiedBy(id) ==
    { c \in CallsOf("verifyMembership") : <<"memberships", id>> \in calls[c].writes }

C28_VerifyFrame ==
    /\ \A c \in CallsOf("verifyMembership") :
         /\ CreationFailed(c) =>
              /\ Returned(c) /\ ~calls[c].result.success
              /\ Len(outcomes[c]) = 1
              /\ calls[c].writes = {} /\ AccountsBy(c) = {}
         /\ verifyMembershipSchema(calls[c].data) # {} =>
              /\ Returned(c) /\ ~calls[c].result.success
              /\ outcomes[c] = <<>>
              /\ calls[c].writes = {} /\ AccountsBy(c) = {}
    /\ \A i \in DOMAIN store["memberships"] :
         VerifiedBy(store["memberships"][i].id) = {} =>
           store["memberships"][i].fields.status = "pending"
    /\ Invalidations("/admin/memberships")
         = Cardinality({ c \in CallsOf("verifyMembership") : calls[c].writes # {} })

\* A verification of a pending membership has returned after the bridge was
\* unreachable, and the membership is still pending, nothing invalidated.
C28_Witness ==
    \E c \in CallsOf("verifyMembership") :
      /\ outcomes[c] = <<"auth/network-request-failed">>
      /\ Returned(c)
      /\ HasDoc("memberships", calls[c].data.membershipId)
      /\ Membership(calls[c].data.membershipId).fields.status = "pending"
      /\ revalidated = <<>>

(***************************************************************************)
(* C27.  When verification is invoked from the admin memberships view,     *)
(* with the email and phone of the membership record, every Membership     *)
(* with status 'verified' has an identity-bridge account whose login is    *)
(* the membership's email: the status update is issued only after account  *)
(* creation succeeded or failed with "already exists".                     *)
(***************************************************************************)
C27_VerifiedHasAccount ==
    /\ \A i \in DOMAIN store["memberships"] :
         store["memberships"][i].fields.status = "verified" =>
           HasAccount(store["memberships"][i].fields.email)
    /\ \A c \in CallsOf("verifyMembership") :
         calls[c].pc \in {"updateDoc", "catch.updateDoc"} \/ calls[c].writes # {} =>
           /\ outcomes[c][1] \in {"ok", "auth/email-already-in-use"}
           /\ HasAccount(calls[c].data.email)

\* Two applications with one email: the first was verified with a new
\* account, the second by the "already exists" path.
C27_Witness ==
    \E c, d \in CallsOf("verifyMembership") :
      /\ calls[c].data.membershipId # calls[d].data.membershipId
      /\ outcomes[c] = <<"ok", "ok">>
      /\ outcomes[d] = <<"auth/email-already-in-use", "ok">>
      /\ \A i \in DOMAIN store["memberships"] :
           store["memberships"][i].fields.status = "verified"

(***************************************************************************)
(* C30.  Verify button of the admin memberships view: the button is        *)
(* disabled exactly while a verifyMembership call it started is            *)
(* outstanding, so that one button never has two calls in flight, and      *)
(* after every click the loading flag returns to false, whatever the       *)
(* identity-bridge and store calls inside verifyMembership answer.         *)
(***************************************************************************)
C30_VerifyButton ==
    \A id \in DOMAIN ui.buttons :
      ui.buttons[id].isLoading <=> ui.buttons[id].call # 0

(***************************************************************************)
(* C29.  Membership application wizard: currentStep only takes the values  *)
(* 1, 2 and 3 and never decreases; step 3 (the confirmation) is reached    *)
(* only after applyForMembership has returned success with a membership    *)
(* id, and membershipId is set whenever currentStep = 3; a failed          *)
(* submission leaves the wizard on step 2 with membershipId unset.         *)
(***************************************************************************)
WizardSteps ==
    /\ ui.wizard.currentStep \in {1, 2, 3}
    /\ ui.wizard.currentStep < 3 => ui.wizard.membershipId = 0
    /\ ui.wizard.currentStep = 3 =>
         /\ ui.wizard.membershipId # 0
         /\ \E c \in CallsOf("applyForMembership") :
              /\ Returned(c) /\ calls[c].result.success
              /\ calls[c].result.membershipId = ui.wizard.membershipId
              /\ calls[c].data = ui.wizard.values

\* The step in which onSubmit learns that its submission failed.
SubmissionFailed ==
    /\ ui.wizard.call # 0 /\ ui'.wizard.call = 0
    /\ ~calls[ui.wizard.call].result.success

WizardMoves ==
    /\ ui'.wizard.currentStep >= ui.wizard.currentStep
    /\ SubmissionFailed => ui'.wizard.currentStep = 2 /\ ui'.wizard.membershipId = 0

=============================================================================
